---------------------------- MODULE Spec2Model ----------------------------
(***************************************************************************)
(* A model of the candidate-profile parser (src/parser/llama_parser.py):   *)
(* text extraction with OCR fallback, the deterministic (regex) field      *)
(* extractor, the generative (LLaMA) extractor and the merge performed by  *)
(* CandidateParser.parse.                                                  *)
(*                                                                         *)
(* Python values are modelled as tagged records: a str is                  *)
(* [t |-> "str", v |-> s], a dict is [t |-> "obj", v |-> f] with f a       *)
(* function from the keys present to values, a list is                     *)
(* [t |-> "arr", v |-> q], None is [t |-> "null"].                         *)
(* Strings are TLA+ strings; Len, SubSeq and \o are the only string        *)
(* operations used.                                                        *)
(***************************************************************************)
EXTENDS Integers, Sequences, FiniteSets, TLC

(***************************************************************************)
(* Characters and Python string methods                                    *)
(***************************************************************************)
Char(s, i) == SubSeq(s, i, i)

UpperSeq == "ABCDEFGHIJKLMNOPQRSTUVWXYZ"
LowerSeq == "abcdefghijklmnopqrstuvwxyz"
DigitSeq == "0123456789"

CharsOf(s) == {Char(s, i) : i \in 1..Len(s)}

UpperSet == CharsOf(UpperSeq)
LowerSet == CharsOf(LowerSeq)
DigitSet == CharsOf(DigitSeq)
SpaceSet == {" ", "\n", "\t", "\r"}
WordSet == UpperSet \cup LowerSet \cup DigitSet \cup {"_"}

IndexIn(s, c) == CHOOSE i \in 1..Len(s) : Char(s, i) = c

LowerChar(c) == IF c \in UpperSet THEN Char(LowerSeq, IndexIn(UpperSeq, c)) ELSE c
UpperChar(c) == IF c \in LowerSet THEN Char(UpperSeq, IndexIn(LowerSeq, c)) ELSE c

\* The string operations recurse on halves of the string, so that the depth
\* of the evaluation grows with the logarithm of the length.
Half(s) == Len(s) \div 2

\* s.lower()
RECURSIVE StrLower(_)
StrLower(s) ==
    IF Len(s) = 0 THEN ""
    ELSE IF Len(s) = 1 THEN LowerChar(s)
    ELSE StrLower(SubSeq(s, 1, Half(s))) \o StrLower(SubSeq(s, Half(s) + 1, Len(s)))

\* s.upper()
RECURSIVE StrUpper(_)
StrUpper(s) ==
    IF Len(s) = 0 THEN ""
    ELSE IF Len(s) = 1 THEN UpperChar(s)
    ELSE StrUpper(SubSeq(s, 1, Half(s))) \o StrUpper(SubSeq(s, Half(s) + 1, Len(s)))

SetMin(S) == CHOOSE x \in S : \A y \in S : x <= y
SetMax(S) == CHOOSE x \in S : \A y \in S : y <= x

\* s.strip()
StrStrip(s) ==
    LET keep == {i \in 1..Len(s) : Char(s, i) \notin SpaceSet}
    IN  IF keep = {} THEN "" ELSE SubSeq(s, SetMin(keep), SetMax(keep))

\* s.replace(c, '') for a one-character c
RECURSIVE StrRemove(_, _)
StrRemove(s, c) ==
    IF Len(s) = 0 THEN ""
    ELSE IF Len(s) = 1 THEN (IF s = c THEN "" ELSE s)
    ELSE StrRemove(SubSeq(s, 1, Half(s)), c) \o StrRemove(SubSeq(s, Half(s) + 1, Len(s)), c)

\* s.split('\n'): the sequence of lines, always at least one element
SplitLines(s) ==
    LET nl == {i \in 1..Len(s) : Char(s, i) = "\n"}
        \* the position of the j-th newline; 0 for j = 0, Len(s) + 1 past the last
        At(j) == IF j = 0 THEN 0
                 ELSE IF j > Cardinality(nl) THEN Len(s) + 1
                 ELSE CHOOSE i \in nl : Cardinality({x \in nl : x < i}) = j - 1
    IN  [j \in 1..(Cardinality(nl) + 1) |-> SubSeq(s, At(j - 1) + 1, At(j) - 1)]

\* sep.join(parts)
RECURSIVE StrJoin(_, _)
StrJoin(sep, parts) ==
    IF Len(parts) = 0 THEN ""
    ELSE IF Len(parts) = 1 THEN parts[1]
    ELSE parts[1] \o sep \o StrJoin(sep, Tail(parts))

\* needle in s
Contains(s, needle) ==
    \E i \in 1..(Len(s) - Len(needle) + 1) : SubSeq(s, i, i + Len(needle) - 1) = needle


(***************************************************************************)
(* Python's re module: a backtracking matcher over pattern trees.          *)
(* A pattern is a tree of nodes; MatchSeq matches a sequence of nodes      *)
(* (the continuation) at a position and returns the first success in       *)
(* backtracking order: alternatives left to right, quantifiers greedy.     *)
(* Only capture group 1 is tracked, the only group the parser reads.       *)
(***************************************************************************)
Inf == -1

Lit(s) == [op |-> "lit", s |-> s]                 \* a literal string
Cls(S) == [op |-> "cls", s |-> S]                 \* a character class
Cat(xs) == [op |-> "cat", xs |-> xs]              \* concatenation
Alt(xs) == [op |-> "alt", xs |-> xs]              \* a|b|c
Rep(n, lo, hi) == [op |-> "rep", n |-> n, lo |-> lo, hi |-> hi]   \* n{lo,hi}, greedy
Opt(n) == Rep(n, 0, 1)
Plus(n) == Rep(n, 1, Inf)
G1(n) == [op |-> "g1", n |-> n]                   \* capture group 1
WordB == [op |-> "wordb"]                         \* \b
Bol == [op |-> "bol"]                             \* ^
Dot == [op |-> "dot"]                             \* .
G1Start == [op |-> "g1s"]
G1End == [op |-> "g1e"]

NoMatch == [ok |-> FALSE, start |-> 0, pos |-> 0, g1s |-> 0, g1e |-> 0]

\* flags: ic = re.IGNORECASE, ml = re.MULTILINE, ds = re.DOTALL
Flags(ic, ml, ds) == [ic |-> ic, ml |-> ml, ds |-> ds]
NoFlags == Flags(FALSE, FALSE, FALSE)
IgnoreCase == Flags(TRUE, FALSE, FALSE)
IgnoreCaseMultiline == Flags(TRUE, TRUE, FALSE)
DotAll == Flags(FALSE, FALSE, TRUE)

LitAt(s, pos, lit, ic) ==
    /\ pos + Len(lit) - 1 <= Len(s)
    /\ LET got == SubSeq(s, pos, pos + Len(lit) - 1)
       IN  IF ic THEN StrLower(got) = StrLower(lit) ELSE got = lit

ClsAt(s, pos, S, ic) ==
    /\ pos <= Len(s)
    /\ LET c == Char(s, pos)
       IN  \/ c \in S
           \/ ic /\ (LowerChar(c) \in S \/ UpperChar(c) \in S)

DotAt(s, pos, ds) == pos <= Len(s) /\ (ds \/ Char(s, pos) # "\n")

\* the length of the run of characters . matches at pos, at most hi
DotRun(s, pos, ds, hi) ==
    LET stops == IF ds THEN {} ELSE {j \in pos..Len(s) : Char(s, j) = "\n"}
        avail == IF stops = {} THEN Len(s) - pos + 1 ELSE SetMin(stops) - pos
    IN  IF hi # Inf /\ hi < avail THEN hi ELSE avail

IsWordAt(s, pos) == pos >= 1 /\ pos <= Len(s) /\ Char(s, pos) \in WordSet

WordBoundaryAt(s, pos) == IsWordAt(s, pos - 1) # IsWordAt(s, pos)

BolAt(s, pos, ml) == pos = 1 \/ (ml /\ Char(s, pos - 1) = "\n")

\* the first position in lo..hi whose character is outside the class, hi + 1
\* when there is none
RECURSIVE FirstStop(_, _, _, _, _)
FirstStop(s, S, ic, lo, hi) ==
    IF lo > hi THEN lo
    ELSE IF lo = hi THEN (IF ClsAt(s, lo, S, ic) THEN hi + 1 ELSE lo)
    ELSE LET mid == (lo + hi) \div 2
             l == FirstStop(s, S, ic, lo, mid)
         IN  IF l <= mid THEN l ELSE FirstStop(s, S, ic, mid + 1, hi)

\* the length of the run of class characters at pos, at most hi (Inf: no limit)
ClsRun(s, pos, S, ic, hi) ==
    LET end == IF hi = Inf \/ pos + hi - 1 > Len(s) THEN Len(s) ELSE pos + hi - 1
    IN  FirstStop(s, S, ic, pos, end) - pos

RECURSIVE MatchSeq(_, _, _, _)

\* a greedy quantifier over a character class: the counts hi, hi-1, .. lo are
\* tried in that order, each followed by the rest of the pattern
RECURSIVE RepTry(_, _, _, _, _, _)
RepTry(rest, s, st, fl, lo, hi) ==
    IF lo > hi THEN NoMatch
    ELSE IF lo = hi THEN MatchSeq(rest, s, [st EXCEPT !.pos = st.pos + lo], fl)
    ELSE LET mid == (lo + hi + 1) \div 2
             upper == RepTry(rest, s, st, fl, mid, hi)
         IN  IF upper.ok THEN upper ELSE RepTry(rest, s, st, fl, lo, mid - 1)

MatchSeq(todo, s, st, fl) ==
    IF Len(todo) = 0 THEN [st EXCEPT !.ok = TRUE]
    ELSE
      LET n == Head(todo)
          rest == Tail(todo)
      IN
      CASE n.op = "lit" ->
             IF LitAt(s, st.pos, n.s, fl.ic)
             THEN MatchSeq(rest, s, [st EXCEPT !.pos = st.pos + Len(n.s)], fl)
             ELSE NoMatch
        [] n.op = "cls" ->
             IF ClsAt(s, st.pos, n.s, fl.ic)
             THEN MatchSeq(rest, s, [st EXCEPT !.pos = st.pos + 1], fl)
             ELSE NoMatch
        [] n.op = "cat" -> MatchSeq(n.xs \o rest, s, st, fl)
        [] n.op = "alt" ->
             IF Len(n.xs) = 0 THEN NoMatch
             ELSE LET first == MatchSeq(<<Head(n.xs)>> \o rest, s, st, fl)
                  IN  IF first.ok THEN first
                      ELSE MatchSeq(<<Alt(Tail(n.xs))>> \o rest, s, st, fl)
        [] n.op = "rep" /\ n.n.op = "cls" ->
             RepTry(rest, s, st, fl, n.lo, ClsRun(s, st.pos, n.n.s, fl.ic, n.hi))
        [] n.op = "rep" /\ n.n.op = "dot" ->
             RepTry(rest, s, st, fl, n.lo, DotRun(s, st.pos, fl.ds, n.hi))
        [] n.op = "dot" ->
             IF DotAt(s, st.pos, fl.ds)
             THEN MatchSeq(rest, s, [st EXCEPT !.pos = st.pos + 1], fl)
             ELSE NoMatch
        [] n.op = "rep" /\ n.n.op \notin {"cls", "dot"} ->
             LET more ==
                   IF n.hi = 0 THEN NoMatch
                   ELSE MatchSeq(
                          <<n.n, Rep(n.n, IF n.lo > 0 THEN n.lo - 1 ELSE 0,
                                          IF n.hi = Inf THEN Inf ELSE n.hi - 1)>> \o rest,
                          s, st, fl)
             IN  IF more.ok THEN more
                 ELSE IF n.lo = 0 THEN MatchSeq(rest, s, st, fl)
                 ELSE NoMatch
        [] n.op = "g1" -> MatchSeq(<<G1Start, n.n, G1End>> \o rest, s, st, fl)
        [] n.op = "g1s" -> MatchSeq(rest, s, [st EXCEPT !.g1s = st.pos], fl)
        [] n.op = "g1e" -> MatchSeq(rest, s, [st EXCEPT !.g1e = st.pos], fl)
        [] n.op = "wordb" ->
             IF WordBoundaryAt(s, st.pos) THEN MatchSeq(rest, s, st, fl) ELSE NoMatch
        [] n.op = "bol" ->
             IF BolAt(s, st.pos, fl.ml) THEN MatchSeq(rest, s, st, fl) ELSE NoMatch

MatchAt(pat, s, i, fl) ==
    MatchSeq(<<pat>>, s, [ok |-> FALSE, start |-> i, pos |-> i, g1s |-> 0, g1e |-> 0], fl)

\* re.search(pat, s, flags): the leftmost match, or NoMatch
RECURSIVE SearchFrom(_, _, _, _, _)
SearchFrom(pat, s, lo, hi, fl) ==
    IF lo > hi THEN NoMatch
    ELSE IF lo = hi THEN MatchAt(pat, s, lo, fl)
    ELSE LET mid == (lo + hi) \div 2
             left == SearchFrom(pat, s, lo, mid, fl)
         IN  IF left.ok THEN left ELSE SearchFrom(pat, s, mid + 1, hi, fl)

ReSearch(pat, s, fl) == SearchFrom(pat, s, 1, Len(s) + 1, fl)

\* match.group(0) and match.group(1)
Group0(s, m) == SubSeq(s, m.start, m.pos - 1)
Group1(s, m) == SubSeq(s, m.g1s, m.g1e - 1)

\* re.findall(pat, s)[0] for a pattern with one capture group: findall
\* returns the group's text, '' when the group took no part in the match
FindallFirstGroup(s, m) == IF m.g1s = 0 THEN "" ELSE Group1(s, m)


(***************************************************************************)
(* Python values                                                           *)
(***************************************************************************)
EmptyMap == [k \in {} |-> ""]

PyStr(s) == [t |-> "str", v |-> s]
PyDict(f) == [t |-> "obj", v |-> f]
PyList(q) == [t |-> "arr", v |-> q]
PyNum(n) == [t |-> "num", v |-> n]
PyBool(b) == [t |-> "bool", v |-> b]
PyNone == [t |-> "null", v |-> 0]

EmptyDict == PyDict(EmptyMap)
EmptyStr == PyStr("")

IsDict(x) == x.t = "obj"
IsStr(x) == x.t = "str"
IsList(x) == x.t = "arr"

\* bool(x)
Truthy(x) ==
    CASE x.t = "str" -> x.v # ""
      [] x.t = "obj" -> DOMAIN x.v # {}
      [] x.t = "arr" -> Len(x.v) > 0
      [] x.t = "num" -> x.v # 0
      [] x.t = "bool" -> x.v
      [] x.t = "null" -> FALSE

HasKey(d, k) == k \in DOMAIN d.v

\* d.get(k) on a dict: the value, None when the key is absent
DictGet(d, k) == IF HasKey(d, k) THEN d.v[k] ELSE PyNone

\* d[k] = x
DictSet(d, k, x) == PyDict((k :> x) @@ d.v)

\* x == y for values of the model, by tag first
RECURSIVE PyEq(_, _)
PyEq(x, y) ==
    /\ x.t = y.t
    /\ CASE x.t = "str" -> x.v = y.v
         [] x.t = "num" -> x.v = y.v
         [] x.t = "bool" -> x.v = y.v
         [] x.t = "null" -> TRUE
         [] x.t = "arr" ->
              /\ Len(x.v) = Len(y.v)
              /\ \A i \in 1..Len(x.v) : PyEq(x.v[i], y.v[i])
         [] x.t = "obj" ->
              /\ DOMAIN x.v = DOMAIN y.v
              /\ \A k \in DOMAIN x.v : PyEq(x.v[k], y.v[k])

(***************************************************************************)
(* deterministic_extract: the patterns                                     *)
(***************************************************************************)
AlphaSet == UpperSet \cup LowerSet
AlnumSet == AlphaSet \cup DigitSet
Digit6to9 == {"6", "7", "8", "9"}

\* r'\b[A-Za-z0-9._%+-]+@[A-Za-z0-9.-]+\.[A-Z|a-z]{2,}\b'
email_pattern ==
    Cat(<<WordB, Plus(Cls(AlnumSet \cup {".", "_", "%", "+", "-"})), Lit("@"),
          Plus(Cls(AlnumSet \cup {".", "-"})), Lit("."),
          Rep(Cls(AlphaSet \cup {"|"}), 2, Inf), WordB>>)

\* r'(\+91[\s-]?)?[6-9]\d{9}|\b0?[6-9]\d{9}\b'
phone_pattern ==
    Alt(<<Cat(<<Opt(G1(Cat(<<Lit("+91"), Opt(Cls(SpaceSet \cup {"-"}))>>))),
                Cls(Digit6to9), Rep(Cls(DigitSet), 9, 9)>>),
          Cat(<<WordB, Opt(Lit("0")), Cls(Digit6to9), Rep(Cls(DigitSet), 9, 9), WordB>>)>>)

\* r'[A-Z]{5}[0-9]{4}[A-Z]'
pan_pattern == Cat(<<Rep(Cls(UpperSet), 5, 5), Rep(Cls(DigitSet), 4, 4), Cls(UpperSet)>>)

\* r'\b\d{12}\b'
uan_pattern == Cat(<<WordB, Rep(Cls(DigitSet), 12, 12), WordB>>)

\* r'[A-Z]{1}[0-9]{7}|[A-Z]{2}[0-9]{7}'
passport_pattern ==
    Alt(<<Cat(<<Rep(Cls(UpperSet), 1, 1), Rep(Cls(DigitSet), 7, 7)>>),
          Cat(<<Rep(Cls(UpperSet), 2, 2), Rep(Cls(DigitSet), 7, 7)>>)>>)

SlashDash == Cls({"/", "-"})
MonthNames ==
    Alt(<<Lit("jan"), Lit("feb"), Lit("mar"), Lit("apr"), Lit("may"), Lit("jun"),
          Lit("jul"), Lit("aug"), Lit("sep"), Lit("oct"), Lit("nov"), Lit("dec")>>)

\* the three dob patterns, in the order of the list (their groups are never read)
dob_patterns ==
    << Cat(<<WordB, Rep(Cls(DigitSet), 1, 2), SlashDash, Rep(Cls(DigitSet), 1, 2),
             SlashDash, Rep(Cls(DigitSet), 4, 4), WordB>>),
       Cat(<<WordB, Rep(Cls(DigitSet), 4, 4), SlashDash, Rep(Cls(DigitSet), 1, 2),
             SlashDash, Rep(Cls(DigitSet), 1, 2), WordB>>),
       Cat(<<WordB, MonthNames, Rep(Cls(LowerSet), 0, Inf), Plus(Cls(SpaceSet)),
             Rep(Cls(DigitSet), 1, 2), Opt(Lit(",")), Plus(Cls(SpaceSet)),
             Rep(Cls(DigitSet), 4, 4), WordB>>) >>

\* r'(?:name|candidate name|full name)[\s:]+([A-Z][a-zA-Z\s]+)' and
\* r'^([A-Z][a-zA-Z\s]{2,})'
name_patterns ==
    << Cat(<<Alt(<<Lit("name"), Lit("candidate name"), Lit("full name")>>),
             Plus(Cls(SpaceSet \cup {":"})),
             G1(Cat(<<Cls(UpperSet), Plus(Cls(AlphaSet \cup SpaceSet))>>))>>),
       Cat(<<Bol, G1(Cat(<<Cls(UpperSet), Rep(Cls(AlphaSet \cup SpaceSet), 2, Inf)>>))>>) >>

\* r'(?:designation|title|position)[\s:]+([A-Za-z\s]+)' and the vocabulary
designation_patterns ==
    << Cat(<<Alt(<<Lit("designation"), Lit("title"), Lit("position")>>),
             Plus(Cls(SpaceSet \cup {":"})),
             G1(Plus(Cls(AlphaSet \cup SpaceSet)))>>),
       Alt(<<Lit("software engineer"), Lit("developer"), Lit("manager"),
             Lit("analyst"), Lit("consultant"), Lit("engineer")>>) >>

\* r'\b(male|female|other|m|f)\b'
gender_pattern ==
    Cat(<<WordB, G1(Alt(<<Lit("male"), Lit("female"), Lit("other"), Lit("m"), Lit("f")>>)),
          WordB>>)

\* r'(?:nationality|citizen)[\s:]+([A-Za-z]+)'
nationality_pattern ==
    Cat(<<Alt(<<Lit("nationality"), Lit("citizen")>>), Plus(Cls(SpaceSet \cup {":"})),
          G1(Plus(Cls(AlphaSet)))>>)

address_keywords == <<"address", "residence", "location", "city", "state", "pincode">>


(***************************************************************************)
(* deterministic_extract: one operator per rule; each yields the keys the  *)
(* rule sets (a function from those keys to values), empty on no match.    *)
(***************************************************************************)
OptKey(cond, k, s) == IF cond THEN (k :> PyStr(s)) ELSE EmptyMap

\* the index of the first pattern of the list that matches, 0 when none does
RECURSIVE FirstMatching(_, _, _, _)
FirstMatching(patterns, text, fl, i) ==
    IF i > Len(patterns) THEN 0
    ELSE IF ReSearch(patterns[i], text, fl).ok THEN i
    ELSE FirstMatching(patterns, text, fl, i + 1)

ExtractEmail(text) ==
    LET m == ReSearch(email_pattern, text, NoFlags)
    IN  OptKey(m.ok, "email", Group0(text, m))

ExtractPhone(text) ==
    LET m == ReSearch(phone_pattern, text, NoFlags)
        phone == FindallFirstGroup(text, m)
    IN  OptKey(m.ok, "phone", StrRemove(StrRemove(phone, "-"), " "))

ExtractPan(text) ==
    LET up == StrUpper(text)
        m == ReSearch(pan_pattern, up, NoFlags)
    IN  OptKey(m.ok, "pan_number", Group0(up, m))

ExtractUan(text) ==
    LET m == ReSearch(uan_pattern, text, NoFlags)
    IN  OptKey(m.ok, "uan_number", Group0(text, m))

ExtractPassport(text) ==
    LET up == StrUpper(text)
        m == ReSearch(passport_pattern, up, NoFlags)
    IN  OptKey(m.ok, "passport_number", Group0(up, m))

\* a dob rule that takes the match that starts first in the text, whatever
\* the pattern
ExtractDobEarliest(text) ==
    LET found == {i \in 1..Len(dob_patterns) : ReSearch(dob_patterns[i], text, IgnoreCase).ok}
        i == CHOOSE j \in found :
               \A k \in found : ReSearch(dob_patterns[j], text, IgnoreCase).start
                                   <= ReSearch(dob_patterns[k], text, IgnoreCase).start
    IN  IF found = {} THEN EmptyMap
        ELSE "dob" :> PyStr(Group0(text, ReSearch(dob_patterns[i], text, IgnoreCase)))

ExtractDob(text) ==
    LET i == FirstMatching(dob_patterns, text, IgnoreCase, 1)
    IN  IF i = 0 THEN EmptyMap
        ELSE "dob" :> PyStr(Group0(text, ReSearch(dob_patterns[i], text, IgnoreCase)))

ExtractName(text) ==
    LET i == FirstMatching(name_patterns, text, IgnoreCaseMultiline, 1)
    IN  IF i = 0 THEN EmptyMap
        ELSE "name" :>
               PyStr(StrStrip(Group1(text, ReSearch(name_patterns[i], text, IgnoreCaseMultiline))))

ExtractDesignation(text) ==
    LET i == FirstMatching(designation_patterns, text, IgnoreCase, 1)
        m == ReSearch(designation_patterns[i], text, IgnoreCase)
    IN  IF i = 0 THEN EmptyMap
        ELSE "designation" :>
               PyStr(IF m.g1s # 0 THEN StrStrip(Group1(text, m)) ELSE Group0(text, m))

ExtractGender(text) ==
    LET low == StrLower(text)
        m == ReSearch(gender_pattern, low, NoFlags)
    IN  OptKey(m.ok, "gender", Group1(low, m))

ExtractNationality(text) ==
    LET m == ReSearch(nationality_pattern, text, IgnoreCase)
    IN  OptKey(m.ok, "nationality", StrStrip(Group1(text, m)))

IsAddressLine(line) ==
    \E i \in 1..Len(address_keywords) : Contains(StrLower(line), address_keywords[i])

RECURSIVE AddressLines(_)
AddressLines(lines) ==
    IF Len(lines) = 0 THEN <<>>
    ELSE (IF IsAddressLine(Head(lines)) THEN <<StrStrip(Head(lines))>> ELSE <<>>)
         \o AddressLines(Tail(lines))

PySlice(q, from, to) == SubSeq(q, from + 1, IF to < Len(q) THEN to ELSE Len(q))

\* an address rule whose second slice runs to the last line
ExtractAddressesRest(text) ==
    LET address_lines == AddressLines(SplitLines(text))
        current == StrJoin(" ", PySlice(address_lines, 0, 3))
    IN  IF Len(address_lines) = 0 THEN EmptyMap
        ELSE ("current" :> PyStr(current))
             @@ ("permanent" :>
                   PyStr(IF Len(address_lines) > 3
                         THEN StrJoin(" ", PySlice(address_lines, 3, Len(address_lines)))
                         ELSE current))

ExtractAddresses(text) ==
    LET address_lines == AddressLines(SplitLines(text))
        current == StrJoin(" ", PySlice(address_lines, 0, 3))
    IN  IF Len(address_lines) = 0 THEN EmptyMap
        ELSE ("current" :> PyStr(current))
             @@ ("permanent" :>
                   PyStr(IF Len(address_lines) > 3
                         THEN StrJoin(" ", PySlice(address_lines, 3, 6))
                         ELSE current))

\* a template that lacks the experience group
InitialResultNoExperience ==
    ("identity" :> EmptyDict) @@ ("documents" :> EmptyDict) @@ ("education" :> PyList(<<>>))
    @@ ("addresses" :> EmptyDict)

\* the groups deterministic_extract starts from
InitialResult ==
    ("identity" :> EmptyDict) @@ ("documents" :> EmptyDict) @@ ("education" :> PyList(<<>>))
    @@ ("experience" :> PyList(<<>>)) @@ ("addresses" :> EmptyDict)

deterministic_extract(text) ==
    LET identity ==
            ExtractEmail(text) @@ ExtractPhone(text) @@ ExtractDob(text)
            @@ ExtractName(text) @@ ExtractDesignation(text) @@ ExtractGender(text)
            @@ ExtractNationality(text)
        documents == ExtractPan(text) @@ ExtractUan(text) @@ ExtractPassport(text)
        addresses == ExtractAddresses(text)
    IN  PyDict(("identity" :> PyDict(identity))
               @@ ("documents" :> PyDict(documents))
               @@ ("addresses" :> PyDict(addresses))
               @@ InitialResult)


(***************************************************************************)
(* extract_text.  The libraries are the environment: what pdfminer,        *)
(* pdf2image, pytesseract and python-docx do with a file is an input of    *)
(* the call.  A library call either raises or returns; an outcome is       *)
(* [raises |-> BOOLEAN, text |-> STRING] for text,                         *)
(* [raises |-> BOOLEAN, pages |-> sequence of text outcomes] for           *)
(* convert_from_path, whose pages carry what image_to_string does on them, *)
(* and [raises |-> BOOLEAN, paragraphs |-> sequence of strings] for        *)
(* Document(..) and its paragraphs.                                        *)
(* extract_text yields [raises, text, steps]: whether an exception leaves  *)
(* it, the text returned, and the library calls it made, in order.         *)
(***************************************************************************)
Raises == [raises |-> TRUE, text |-> ""]
Returns(t) == [raises |-> FALSE, text |-> t]
ConvertRaises == [raises |-> TRUE, pages |-> <<>>]
ConvertReturns(pages) == [raises |-> FALSE, pages |-> pages]
DocRaises == [raises |-> TRUE, paragraphs |-> <<>>]
DocReturns(paragraphs) == [raises |-> FALSE, paragraphs |-> paragraphs]

\* PurePath.name: the last component of the path
PathName(path) ==
    LET slashes == {i \in 1..Len(path) : Char(path, i) = "/"}
    IN  IF slashes = {} THEN path ELSE SubSeq(path, SetMax(slashes) + 1, Len(path))

\* PurePath.suffix: from the last dot of the name, '' when the name has no dot
\* or only a leading or trailing one
PathSuffix(path) ==
    LET name == PathName(path)
        dots == {i \in 1..Len(name) : Char(name, i) = "."}
    IN  IF dots = {} THEN ""
        ELSE IF SetMax(dots) > 1 /\ SetMax(dots) < Len(name)
             THEN SubSeq(name, SetMax(dots), Len(name))
             ELSE ""

\* len(text.strip()) < 100
OCR_THRESHOLD == 100

\* a threshold test that takes 100 characters for too few
LowTextInclusive(direct) == ~direct.raises /\ Len(StrStrip(direct.text)) <= OCR_THRESHOLD

\* direct extraction returned, with minimal text
LowText(direct) == ~direct.raises /\ Len(StrStrip(direct.text)) < OCR_THRESHOLD

\* images = convert_from_path(..); ocr_text = [image_to_string(img) ..];
\* "\n\n".join(ocr_text): the steps invoked, and the text or the raise
OcrPath(ocr) ==
    LET firstBad == {i \in 1..Len(ocr.pages) : ocr.pages[i].raises}
        tried == IF firstBad = {} THEN Len(ocr.pages) ELSE SetMin(firstBad)
    IN  IF ocr.raises
        THEN [raises |-> TRUE, text |-> "", steps |-> <<"convert_from_path">>]
        ELSE [raises |-> firstBad # {},
              text |-> IF firstBad # {} THEN ""
                       ELSE StrJoin("\n\n", [i \in 1..Len(ocr.pages) |-> ocr.pages[i].text]),
              steps |-> <<"convert_from_path">> \o [i \in 1..tried |-> "image_to_string"]]

\* the .pdf branch with no try around the OCR of the except block
ExtractPdfUncaught(env) ==
    LET low == LowText(env.direct)
        first == OcrPath(env.ocr1)
        second == OcrPath(env.ocr2)
        tryRaises == env.direct.raises \/ (low /\ first.raises)
        trySteps == <<"pdf_extract_text">>
                    \o (IF low THEN first.steps ELSE <<>>)
    IN  IF ~tryRaises
        THEN [raises |-> FALSE,
              text |-> IF low THEN first.text ELSE env.direct.text,
              steps |-> trySteps]
        ELSE [raises |-> second.raises,
              text |-> second.text,
              steps |-> trySteps \o second.steps]

\* the .pdf branch with an except block that gives up at once
ExtractPdfNoFallback(env) ==
    LET low == LowText(env.direct)
        first == OcrPath(env.ocr1)
        tryRaises == env.direct.raises \/ (low /\ first.raises)
        trySteps == <<"pdf_extract_text">>
                    \o (IF low THEN first.steps ELSE <<>>)
    IN  [raises |-> FALSE,
         text |-> IF tryRaises THEN "" ELSE IF low THEN first.text ELSE env.direct.text,
         steps |-> trySteps]

\* the .pdf branch; env.direct is pdf_extract_text's outcome, env.ocr1 the
\* OCR outcome inside the try block, env.ocr2 the one in the except block
ExtractPdf(env) ==
    LET low == LowText(env.direct)
        first == OcrPath(env.ocr1)
        second == OcrPath(env.ocr2)
        tryRaises == env.direct.raises \/ (low /\ first.raises)
        trySteps == <<"pdf_extract_text">>
                    \o (IF low THEN first.steps ELSE <<>>)
    IN  IF ~tryRaises
        THEN [raises |-> FALSE,
              text |-> IF low THEN first.text ELSE env.direct.text,
              steps |-> trySteps]
        ELSE [raises |-> FALSE,
              text |-> IF second.raises THEN "" ELSE second.text,
              steps |-> trySteps \o second.steps]

\* the .docx/.doc branch; env.docx is the outcome of Document(..) and of
\* reading its paragraphs
ExtractDocx(env) ==
    [raises |-> FALSE,
     text |-> IF env.docx.raises THEN "" ELSE StrJoin("\n", env.docx.paragraphs),
     steps |-> <<"Document">>]

\* the branch for every other suffix
ExtractUnsupported(env) == [raises |-> FALSE, text |-> "", steps |-> <<>>]

extract_text(file_path, env) ==
    LET suffix == StrLower(PathSuffix(file_path))
    IN  IF suffix = ".pdf" THEN ExtractPdf(env)
        ELSE IF suffix \in {".docx", ".doc"} THEN ExtractDocx(env)
        ELSE ExtractUnsupported(env)


(***************************************************************************)
(* llama_extract.  The model is the environment: env.llm is what the call  *)
(* self.llm(prompt, ..) does, one of                                       *)
(*   [kind |-> "raise"]      the call raises                               *)
(*   [kind |-> "nochoices"]  the response has no 'choices' entry           *)
(*   [kind |-> "notext"]     the first choice has no usable 'text'         *)
(*   [kind |-> "text"]       the first choice's text is env.llm.text       *)
(* JsonLoads is json.loads: [ok |-> FALSE] when it raises.                 *)
(***************************************************************************)
LlmRaises == [kind |-> "raise", text |-> ""]
LlmNoChoices == [kind |-> "nochoices", text |-> ""]
LlmNoText == [kind |-> "notext", text |-> ""]
LlmText(t) == [kind |-> "text", text |-> t]

\* r'\{.*\}' with re.DOTALL
json_pattern == Cat(<<Lit("{"), Rep(Dot, 0, Inf), Lit("}")>>)

JsonRaises == [ok |-> FALSE, value |-> PyNone]
JsonValue(x) == [ok |-> TRUE, value |-> x]

\* json.loads on the strings the model's responses lead to
\* BEGIN JsonLoads
JsonLoads(s) ==
    CASE s = "{\"identity\": {\"email\": \"b@y.com\"}}" ->
           JsonValue(PyDict(("identity" :> PyDict(("email" :> PyStr("b@y.com"))))))
      [] s = "{\"identity\": {\"email\": \"\", \"name\": \"Jane Roe\", \"candidate_id\": \"C-77\"}, \"documents\": {\"pan_number\": \"ZZZZZ9999Z\", \"valid_to\": \"\"}, \"education\": [{\"degree\": \"BSc\", \"institution\": \"\", \"year\": \"\", \"percentage\": \"\"}], \"experience\": [], \"addresses\": {\"current\": \"12 Hill St\", \"permanent\": \"\"}}" ->
           JsonValue(PyDict(("identity" :> PyDict(("email" :> PyStr("")) @@ ("name" :> PyStr("Jane Roe")) @@ ("candidate_id" :> PyStr("C-77")))) @@ ("documents" :> PyDict(("pan_number" :> PyStr("ZZZZZ9999Z")) @@ ("valid_to" :> PyStr("")))) @@ ("education" :> PyList(<<PyDict(("degree" :> PyStr("BSc")) @@ ("institution" :> PyStr("")) @@ ("year" :> PyStr("")) @@ ("percentage" :> PyStr("")))>>)) @@ ("experience" :> PyList(<<>>)) @@ ("addresses" :> PyDict(("current" :> PyStr("12 Hill St")) @@ ("permanent" :> PyStr(""))))))
      [] s = "{\"documents\": {\"uan_number\": \"111122223333\"}}" ->
           JsonValue(PyDict(("documents" :> PyDict(("uan_number" :> PyStr("111122223333"))))))
      [] s = "{}" ->
           JsonValue(EmptyDict)
      [] s = "123" ->
           JsonValue(PyNum(123))
      [] s = "{\"identity\": \"x\"}" ->
           JsonValue(PyDict(("identity" :> PyStr("x"))))
      [] s = "[{\"a\": 1}, {\"b\": 2}]" ->
           JsonValue(PyList(<<PyDict(("a" :> PyNum(1))), PyDict(("b" :> PyNum(2)))>>))
      [] s = "[{\"identity\": {\"email\": \"b@y.com\"}}]" ->
           JsonValue(PyList(<<PyDict(("identity" :> PyDict(("email" :> PyStr("b@y.com")))))>>))
      [] OTHER -> JsonRaises
\* END JsonLoads

\* a parse of the response that turns to the full response when the span
\* is not JSON
ParseResponseRetry(response_text) ==
    LET generated_text == StrStrip(response_text)
        json_match == ReSearch(json_pattern, generated_text, DotAll)
    IN  IF json_match.ok /\ JsonLoads(Group0(generated_text, json_match)).ok
        THEN JsonLoads(Group0(generated_text, json_match))
        ELSE JsonLoads(generated_text)

\* the statements of the try block after the model call returned its text
ParseResponse(response_text) ==
    LET generated_text == StrStrip(response_text)
        json_match == ReSearch(json_pattern, generated_text, DotAll)
    IN  IF json_match.ok
        THEN JsonLoads(Group0(generated_text, json_match))
        ELSE JsonLoads(generated_text)

\* the try block: [raises, value], raises when an exception leaves the block
LlamaTry(env) ==
    IF env.llm.kind # "text" THEN [raises |-> TRUE, value |-> PyNone]
    ELSE LET parsed == ParseResponse(env.llm.text)
         IN  [raises |-> ~parsed.ok, value |-> parsed.value]

\* llama_extract with no except clause
llama_extract_uncaught(llm, env) ==
    IF llm = "none" THEN [raises |-> FALSE, value |-> EmptyDict] ELSE LlamaTry(env)

\* [raises, value]: whether an exception leaves llama_extract, and its result
llama_extract(llm, env) ==
    IF llm = "none" THEN [raises |-> FALSE, value |-> EmptyDict]
    ELSE LET tried == LlamaTry(env)
         IN  IF tried.raises THEN [raises |-> FALSE, value |-> EmptyDict]
             ELSE [raises |-> FALSE, value |-> tried.value]


(***************************************************************************)
(* The merge of parse.  The merge runs on an accumulator                   *)
(* [raises, result]: result maps the top-level keys to their values, and   *)
(* raises is set when a statement raises (AttributeError on a value that   *)
(* is not of the shape the statement needs); later statements are skipped. *)
(***************************************************************************)
IDENTITY_KEYS ==
    {"candidate_id", "name", "designation", "email", "phone", "dob", "gender", "nationality"}
DOCUMENT_KEYS == {"pan_number", "uan_number", "passport_number", "valid_from", "valid_to"}
ADDRESS_KEYS == {"current", "permanent"}
GROUP_KEYS == {"identity", "documents", "education", "experience", "addresses"}

MergeRaises == [raises |-> TRUE, result |-> EmptyMap]

\* a merge test that lets every generated value through
WinsAlways(value) == value = value

\* if value and value != ""
Wins(value) == Truthy(value) /\ ~PyEq(value, EmptyStr)

\* for key, value in group.items(): if value and value != "": target[key] = value
Overwrite(target, group) ==
    LET won == {k \in DOMAIN group : Wins(group[k])}
    IN  [k \in DOMAIN target \cup won |-> IF k \in won THEN group[k] ELSE target[k]]

\* for key in keys: if key not in target: target[key] = ""
FillKeys(target, keys) ==
    [k \in DOMAIN target \cup keys |-> IF k \in DOMAIN target THEN target[k] ELSE EmptyStr]

\* the "Merge identity" and "Merge documents" blocks
MergeGroup(acc, llama_result, group, keys) ==
    IF acc.raises THEN acc
    ELSE IF ~IsDict(llama_result) THEN MergeRaises
    ELSE LET g == DictGet(llama_result, group)
         IN  IF ~Truthy(g) THEN acc
             ELSE IF ~IsDict(g) THEN MergeRaises
             ELSE [acc EXCEPT !.result[group] =
                                PyDict(FillKeys(Overwrite(acc.result[group].v, g.v), keys))]

\* result[key] = llama_result.get(key), without the test
MergeSequenceUnguarded(acc, llama_result, key) ==
    IF acc.raises THEN acc
    ELSE IF ~IsDict(llama_result) THEN MergeRaises
    ELSE [acc EXCEPT !.result = (key :> DictGet(llama_result, key)) @@ acc.result]

\* a merge that keeps the deterministic sequence whatever the model gives
MergeSequenceNever(acc, llama_result, key) ==
    IF acc.raises THEN acc
    ELSE IF ~IsDict(llama_result) THEN MergeRaises
    ELSE acc

\* if llama_result.get(key): result[key] = llama_result[key]
MergeSequence(acc, llama_result, key) ==
    IF acc.raises THEN acc
    ELSE IF ~IsDict(llama_result) THEN MergeRaises
    ELSE LET q == DictGet(llama_result, key)
         IN  IF Truthy(q) THEN [acc EXCEPT !.result = (key :> q) @@ acc.result] ELSE acc

\* if llama_result["addresses"].get(key): result["addresses"][key] = ..
MergeAddress(acc, addresses, key) ==
    IF acc.raises THEN acc
    ELSE IF ~IsDict(addresses) THEN MergeRaises
    ELSE LET a == DictGet(addresses, key)
         IN  IF Truthy(a)
             THEN [acc EXCEPT !.result["addresses"] = DictSet(acc.result["addresses"], key, a)]
             ELSE acc

\* a merge of the addresses that takes both fields from the model as soon as
\* it gives one
MergeAddressesTogether(acc, llama_result) ==
    IF acc.raises THEN acc
    ELSE IF ~IsDict(llama_result) THEN MergeRaises
    ELSE LET addresses == DictGet(llama_result, "addresses")
         IN  IF ~Truthy(addresses) THEN acc
             ELSE IF ~IsDict(addresses) THEN MergeRaises
             ELSE IF Truthy(DictGet(addresses, "current"))
                     \/ Truthy(DictGet(addresses, "permanent"))
             THEN [acc EXCEPT !.result["addresses"] =
                     DictSet(DictSet(acc.result["addresses"], "current",
                                     DictGet(addresses, "current")),
                             "permanent", DictGet(addresses, "permanent"))]
             ELSE acc

\* the "Merge addresses" block
MergeAddresses(acc, llama_result) ==
    IF acc.raises THEN acc
    ELSE IF ~IsDict(llama_result) THEN MergeRaises
    ELSE LET addresses == DictGet(llama_result, "addresses")
         IN  IF ~Truthy(addresses) THEN acc
             ELSE MergeAddress(MergeAddress(acc, addresses, "current"), addresses, "permanent")

\* hashlib.md5(s.encode()).hexdigest() on the strings the model hashes
\* BEGIN MD5Hex
MD5Hex(s) ==
    CASE s = "a@x.com" -> "743173788aa9166801df2e18f0e7ff24"
      [] s = "b@y.com" -> "60e1253f960c4eef8ce413734155b1e8"
      [] s = "c.docx" -> "2a3c5e41e3056888ae63434d5351935d"
      [] s = "cv.d/README" -> "89e63277b462f438c49c32767a3e57b0"
      [] s = "cv/a.pdf" -> "cf29ce177b40f05fb2a1903a5ffdcd34"
      [] s = "cv/b.PDF" -> "cfcb1daba43f9b74ecaa364570ccdeec"
      [] s = "d.doc" -> "1af030599fb35c14366c0d93398406e2"
      [] s = "jane@acme.com" -> "a6b55dc639dd4151e97efbc42ee1a28b"
      [] s = "notes.txt" -> "a5d5286f1e67b6cd6876223e53f999c4"
\* END MD5Hex

\* a source that is always the path
candidate_id_source_path(identity, file_path) == PyStr(file_path)

\* result["identity"].get("email") or file_path
candidate_id_source(identity, file_path) ==
    LET email == DictGet(identity, "email")
    IN  IF Truthy(email) THEN email ELSE PyStr(file_path)

\* hashlib.md5(source.encode()).hexdigest()[:8].upper()
Digest8(s) == StrUpper(SubSeq(MD5Hex(s), 1, 8))

\* a merge that ends before the candidate_id block
AssignCandidateIdSkipped(acc, file_path) == acc

\* a block that sets the digest whether or not a candidate_id is there
AssignCandidateIdAlways(acc, file_path) ==
    IF acc.raises THEN acc
    ELSE LET identity == acc.result["identity"]
             source == candidate_id_source(identity, file_path)
         IN  IF ~IsStr(source) THEN MergeRaises
             ELSE [acc EXCEPT !.result["identity"] =
                                DictSet(identity, "candidate_id", PyStr(Digest8(source.v)))]

\* the "Generate candidate_id if missing" block
AssignCandidateId(acc, file_path) ==
    IF acc.raises THEN acc
    ELSE LET identity == acc.result["identity"]
             source == candidate_id_source(identity, file_path)
         IN  IF Truthy(DictGet(identity, "candidate_id")) THEN acc
             ELSE IF ~IsStr(source) THEN MergeRaises
             ELSE [acc EXCEPT !.result["identity"] =
                                DictSet(identity, "candidate_id", PyStr(Digest8(source.v)))]

\* result = deterministic_result.copy() and everything after it
Merge(deterministic_result, llama_result, file_path) ==
    AssignCandidateId(
      MergeAddresses(
        MergeSequence(
          MergeSequence(
            MergeGroup(
              MergeGroup([raises |-> FALSE, result |-> deterministic_result.v],
                         llama_result, "identity", IDENTITY_KEYS),
              llama_result, "documents", DOCUMENT_KEYS),
            llama_result, "education"),
          llama_result, "experience"),
        llama_result),
      file_path)

\* dict.copy() is shallow: result and deterministic_result share the identity,
\* documents and addresses dicts, which the merge changes in place, while
\* result["education"] = .. and result["experience"] = .. rebind keys of the
\* copy only.  This is deterministic_result once the merge has run.
SharedGroups == {"identity", "documents", "addresses"}

AfterMerge(deterministic_result, result) ==
    PyDict([k \in DOMAIN deterministic_result.v |->
              IF k \in SharedGroups /\ k \in DOMAIN result THEN result[k]
              ELSE deterministic_result.v[k]])


(***************************************************************************)
(* The inputs of the model: the files handed to parse, what the libraries  *)
(* do with them, and what the language model answers.                      *)
(***************************************************************************)
MaxPages == 2            \* pages of a PDF
MaxParagraphs == 2       \* paragraphs of a word-processor document

\* BEGIN Universe
Paths ==
    {"cv/a.pdf",
     "cv/b.PDF",
     "c.docx",
     "d.doc",
     "notes.txt",
     "cv.d/README"}

LongText ==
    "Name: Jane Doe\nEmail: jane@acme.com\nPhone: +91 9876543210\nDOB: 12/05/1990\nGender: Female\nAddress: 12 MG Road\nCity: Pune"

DirectTexts == {"", "Email: a@x.com", LongText}

PageTexts == {"", "Email: a@x.com"}

ParagraphTexts == {"", "Name: Raj Kumar", "Email: a@x.com"}

Responses ==
    {"{\"identity\": {\"email\": \"b@y.com\"}}",
     "{\"identity\": {\"email\": \"\", \"name\": \"Jane Roe\", \"candidate_id\": \"C-77\"}, \"documents\": {\"pan_number\": \"ZZZZZ9999Z\", \"valid_to\": \"\"}, \"education\": [{\"degree\": \"BSc\", \"institution\": \"\", \"year\": \"\", \"percentage\": \"\"}], \"experience\": [], \"addresses\": {\"current\": \"12 Hill St\", \"permanent\": \"\"}}",
     "not json",
     " Sure! {\"documents\": {\"uan_number\": \"111122223333\"}} hope this helps ",
     "{bad}",
     "",
     "{}",
     "123",
     "{\"identity\": \"x\"}"}
\* END Universe

\* direct texts at the OCR threshold: 100 and 99 characters once trimmed
Text100 ==
    " Skills: Python, SQL and Excel. Languages: English and Hindi. Hobbies: chess, cricket and long walks.\n"
Text99 ==
    " Skills: Python, SQL and Excel. Languages: English and Hindi. Hobbies: chess, cricket and long walk.\n"
ThresholdTexts == {Text100, Text99}

SeqsUpTo(S, n) == UNION {[1..k -> S] : k \in 0..n}

DirectOutcomes == {Raises} \cup {Returns(t) : t \in DirectTexts}
PageOutcomes == {Raises} \cup {Returns(t) : t \in PageTexts}
OcrOutcomes ==
    {ConvertRaises} \cup {ConvertReturns(q) : q \in SeqsUpTo(PageOutcomes, MaxPages)}
DocOutcomes ==
    {DocRaises} \cup {DocReturns(q) : q \in SeqsUpTo(ParagraphTexts, MaxParagraphs)}
LlmOutcomes == {LlmRaises, LlmNoChoices, LlmNoText} \cup {LlmText(t) : t \in Responses}

\* A library call that is not made has no outcome; its field is held at the
\* raising outcome.
Ocr1Outcomes(direct) == IF LowText(direct) THEN OcrOutcomes ELSE {ConvertRaises}
Ocr2Outcomes(direct, ocr1) ==
    IF direct.raises \/ (LowText(direct) /\ OcrPath(ocr1).raises)
    THEN OcrOutcomes ELSE {ConvertRaises}

\* a PDF whose direct text is at the threshold, its one page read by OCR
ThresholdEnvs ==
    UNION {{[direct |-> Returns(t), ocr1 |-> o1, ocr2 |-> ConvertRaises, docx |-> DocRaises,
             llm |-> LlmRaises]
            : o1 \in IF LowText(Returns(t))
                      THEN {ConvertReturns(<<Returns("Email: a@x.com")>>)}
                      ELSE {ConvertRaises}}
           : t \in ThresholdTexts}

FileEnvs(file_path) ==
    LET suffix == StrLower(PathSuffix(file_path))
    IN  IF suffix = ".pdf"
        THEN UNION {UNION {{[direct |-> d, ocr1 |-> o1, ocr2 |-> o2, docx |-> DocRaises,
                             llm |-> LlmRaises] : o2 \in Ocr2Outcomes(d, o1)}
                           : o1 \in Ocr1Outcomes(d)}
                    : d \in DirectOutcomes}
             \cup ThresholdEnvs
        ELSE IF suffix \in {".docx", ".doc"}
        THEN {[direct |-> Raises, ocr1 |-> ConvertRaises, ocr2 |-> ConvertRaises,
               docx |-> d, llm |-> LlmRaises] : d \in DocOutcomes}
        ELSE {[direct |-> Raises, ocr1 |-> ConvertRaises, ocr2 |-> ConvertRaises,
               docx |-> DocRaises, llm |-> LlmRaises]}

\* the texts extract_text can return on these inputs, and the deterministic
\* extraction of each
TextUniverse ==
    DirectTexts
    \cup {StrJoin("\n\n", q) : q \in SeqsUpTo(PageTexts, MaxPages)}
    \cup {StrJoin("\n", q) : q \in SeqsUpTo(ParagraphTexts, MaxParagraphs)}

\* texts with 4, 5 and 7 lines that hold an address keyword, among others
FourLines == "City one\nCity two\nCity three\nCity four"
FiveLines == "Address: L0\nCITY L1\n  State L2 \nnothing here\nLocation L3\nPincode L4\n"
SevenLines == "address a\ncity b\nstate c\nlocation d\nresidence e\npincode f\ncity g"
AddressTexts == {FourLines, FiveLines, SevenLines}

\* texts with a mobile number: bare, with a leading zero, with +91 and a hyphen
PhoneTexts == {"Mobile 9876543210", "Tel 09876543210 (home)", "Ph: +91-9876543210"}

\* texts with dates: a year-first date before a day-first one, a month-name
\* date alone, a month-name date before a year-first one, two day-first dates
DobTexts ==
    {"Joined 2020-01-15, born 12/05/1990",
     "Born on March 5, 1990",
     "Jan 2 2001 then 1999/12/31",
     "1-2-2003 and 04/05/2006"}

\* texts with names: a label after a first line, lines that begin in lower
\* case, a label before a lower-case name
NameTexts ==
    {"Curriculum Vitae\nName: Jane Doe\nPune",
     "my resume\nJohn Smith",
     "name: jane doe"}

\* texts for calls of deterministic_extract on its own
AdversarialTexts ==
    {" \n\t", "@@@ ### {} ..", "PAN abcde1234f UAN 123456789012 J1234567",
     "Nationality: Indian\nDesignation - Engineer\nMale"}
    \cup AddressTexts \cup PhoneTexts \cup DobTexts \cup NameTexts

ExtractTexts == TextUniverse \cup AdversarialTexts \cup ThresholdTexts

DeterministicTable == [text \in ExtractTexts |-> deterministic_extract(text)]

(***************************************************************************)
(* CandidateParser                                                         *)
(***************************************************************************)
DEFAULT_N_CTX == 4096
DEFAULT_N_THREADS == 4

\* __init__: the fields of the parser; llm is "none" for self.llm = None
Construct(llama_available, model_exists, load_raises) ==
    [model_path |-> "models/llama.gguf",
     n_ctx |-> DEFAULT_N_CTX,
     n_threads |-> DEFAULT_N_THREADS,
     llm |-> IF llama_available /\ model_exists /\ ~load_raises THEN "loaded" ELSE "none"]

VARIABLES
    parser,     \* the CandidateParser object
    last,       \* the latest parse call: its inputs, what it computed, its outcome
    again,      \* a second parse call on the same file, made after last
    extraction, \* the latest direct call of deterministic_extract
    handler,    \* the CandidateFileHandler object: processed_hashes, portal_uploader
    hashes_file,  \* the hashes stored in the processed-hashes file
    scan,       \* the files _process_existing_files has still to visit
    handled,    \* the latest _process_file call: its file and what it did
    calls,      \* the parse calls of the threads that share the parser
    uploader,   \* the SVPortalUploader at work: where upload_candidate stands
    watcher     \* the CandidateWatcher: the Drive polling thread and its sets

pvars == <<parser, last, again, extraction>>
hvars == <<handler, hashes_file, scan, handled>>
vars == <<parser, last, again, extraction, handler, hashes_file, scan, handled, calls,
          uploader, watcher>>

NoEnv ==
    [direct |-> Raises, ocr1 |-> ConvertRaises, ocr2 |-> ConvertRaises,
     docx |-> DocRaises, llm |-> LlmRaises]

\* phase: "none" no call, "returned" the call returned result, "raised" an
\* exception left the call.  reached: the last statement group that ran.
NoCall ==
    [phase |-> "none", reached |-> "", file_path |-> "", env |-> NoEnv, text |-> "",
     steps |-> <<>>, deterministic_result |-> PyNone, llama_result |-> PyNone,
     deterministic_after |-> PyNone, result |-> PyNone]

NoExtraction == [called |-> FALSE, text |-> "", result |-> PyNone]

NoFile == [path |-> "", content |-> ""]

\* outcome: how the call ended; hash: what the duplicate test read; before:
\* processed_hashes when the call began; uploads: the uploads that succeeded
NoHandled == [called |-> FALSE, file |-> NoFile, via |-> "", before |-> {}, stored |-> {},
              hash |-> "", outcome |-> "none", parsed |-> FALSE, identity |-> FALSE,
              attempts |-> << >>, sheets |-> "none", portal |-> "none", uploads |-> {},
              mark_read |-> "none", mark_save |-> "none"]

\* no upload to the portal is under way
NoUpload == [pc |-> "idle", endpoint |-> 0, trace |-> << >>, result |-> "none"]

\* no CandidateWatcher has been started
NoWatcher == [pc |-> "none"]

\* the threads that call parse on the one parser
Threads == {1, 2}

\* no thread is in parse
NoCalls == [t \in Threads |-> NoCall]

\* no watcher runs
HandlerIdle ==
    /\ handler = [processed_hashes |-> {}, portal_uploader |-> FALSE]
    /\ hashes_file = {}
    /\ scan = {}
    /\ handled = NoHandled

\* deterministic_result = self.deterministic_extract(text)
DeterministicResult(text) ==
    IF text \in ExtractTexts THEN DeterministicTable[text] ELSE deterministic_extract(text)

\* llama_result = self.llama_extract(text) if self.llm else {}
LlamaResult(p, env) ==
    IF p.llm # "none" THEN llama_extract(p.llm, env) ELSE [raises |-> FALSE, value |-> EmptyDict]

\* result = deterministic_result.copy() .. return result
ParseMerged(extracted, det, llama_value, merged) ==
    IF merged.raises
    THEN [extracted EXCEPT !.phase = "raised", !.reached = "merge",
                           !.deterministic_result = det, !.llama_result = llama_value]
    ELSE [extracted EXCEPT !.phase = "returned", !.reached = "merge",
                           !.deterministic_result = det, !.llama_result = llama_value,
                           !.deterministic_after = AfterMerge(det, merged.result),
                           !.result = PyDict(merged.result)]

\* parse once deterministic_extract and llama_extract have been called
ParseExtracted(extracted, file_path, det, llama) ==
    IF llama.raises
    THEN [extracted EXCEPT !.phase = "raised", !.reached = "llama_extract",
                           !.deterministic_result = det]
    ELSE ParseMerged(extracted, det, llama.value, Merge(det, llama.value, file_path))

\* parse with no test of the extracted text
ParseTextNoStop(p, call, file_path, env, ex) ==
    IF ex.raises
    THEN [call EXCEPT !.phase = "raised", !.reached = "extract_text", !.steps = ex.steps]
    ELSE ParseExtracted([call EXCEPT !.text = ex.text, !.steps = ex.steps], file_path,
                        DeterministicResult(ex.text), LlamaResult(p, env))

\* parse once extract_text has been called: ex is what it did
ParseText(p, call, file_path, env, ex) ==
    IF ex.raises
    THEN [call EXCEPT !.phase = "raised", !.reached = "extract_text", !.steps = ex.steps]
    ELSE IF ex.text = ""
    THEN [call EXCEPT !.phase = "returned", !.reached = "extract_text", !.text = ex.text,
                      !.steps = ex.steps, !.result = EmptyDict]
    ELSE ParseExtracted([call EXCEPT !.text = ex.text, !.steps = ex.steps], file_path,
                        DeterministicResult(ex.text), LlamaResult(p, env))

\* a parse that remembers the file of the latest call and returns nothing for
\* it a second time
parse_once(p, file_path, env) ==
    IF last.phase # "none" /\ last.file_path = file_path
    THEN [NoCall EXCEPT !.file_path = file_path, !.env = env, !.phase = "returned",
                        !.reached = "extract_text", !.result = EmptyDict]
    ELSE ParseText(p, [NoCall EXCEPT !.file_path = file_path, !.env = env], file_path, env,
                   extract_text(file_path, env))

parse(p, file_path, env) ==
    ParseText(p, [NoCall EXCEPT !.file_path = file_path, !.env = env], file_path, env,
              extract_text(file_path, env))

(***************************************************************************)
(* The state machine                                                       *)
(***************************************************************************)
Init ==
    /\ \E llama_available \in BOOLEAN, model_exists \in BOOLEAN, load_raises \in BOOLEAN :
          parser = Construct(llama_available, model_exists, load_raises)
    /\ last = NoCall
    /\ again = NoCall
    /\ extraction = NoExtraction
    /\ HandlerIdle
    /\ calls = NoCalls
    /\ uploader = NoUpload
    /\ watcher = NoWatcher

\* responses that are JSON arrays: the brace-delimited span is not the full
\* response; the model gives them on one document
ArrayResponses == {" [{\"a\": 1}, {\"b\": 2}]\n", "[{\"identity\": {\"email\": \"b@y.com\"}}]"}
ArrayOutcomes(file_path) ==
    IF file_path = "c.docx" THEN {LlmText(t) : t \in ArrayResponses} ELSE {}

\* the model is called when one is loaded and extract_text returned text
LlmEnvs(p, file_path, env) ==
    IF p.llm # "none" /\ extract_text(file_path, env).text # ""
    THEN {[env EXCEPT !.llm = l] : l \in LlmOutcomes \cup ArrayOutcomes(file_path)}
    ELSE {env}

\* parser.parse(file_path), while the caller holds no record
Parse ==
    /\ last.phase = "none"
    /\ ~extraction.called
    /\ \E file_path \in Paths :
         \E fenv \in FileEnvs(file_path) :
           \E env \in LlmEnvs(parser, file_path, fenv) :
             last' = parse(parser, file_path, env)
    /\ UNCHANGED <<parser, again, extraction>>
    /\ UNCHANGED <<hvars, calls, uploader, watcher>>

\* parser.parse(file_path) once more on the file of the latest call, the
\* libraries and the model behaving as they did
Reparse ==
    /\ last.phase # "none"
    /\ again.phase = "none"
    /\ again' = parse(parser, last.file_path, last.env)
    /\ UNCHANGED <<parser, last, extraction>>
    /\ UNCHANGED <<hvars, calls, uploader, watcher>>

\* parser.deterministic_extract(text), called on its own
DeterministicExtract ==
    /\ last.phase = "none"
    /\ ~extraction.called
    /\ \E text \in ExtractTexts :
         extraction' = [called |-> TRUE, text |-> text, result |-> DeterministicResult(text)]
    /\ UNCHANGED <<parser, last, again>>
    /\ UNCHANGED <<hvars, calls, uploader, watcher>>

\* the caller is done with the records
Discard ==
    /\ last.phase # "none" \/ extraction.called
    /\ last' = NoCall
    /\ again' = NoCall
    /\ extraction' = NoExtraction
    /\ UNCHANGED parser
    /\ UNCHANGED <<hvars, calls, uploader, watcher>>

Next == Parse \/ Reparse \/ DeterministicExtract \/ Discard

Spec == Init /\ [][Next]_vars

(***************************************************************************)
(* CandidateFileHandler and CandidateWatcher: the watched folder           *)
(***************************************************************************)
supported_extensions == {".pdf", ".docx", ".doc"}

\* the files that can be in the watched folder: a file is its path and its
\* content, the content named by the text the libraries read from it
WatchFiles ==
    {[path |-> "cv/a.pdf", content |-> LongText],
     [path |-> "cv/b.PDF", content |-> LongText],
     [path |-> "c.docx", content |-> "Email: a@x.com"],
     [path |-> "d.doc", content |-> "Email: a@x.com"],
     [path |-> "notes.txt", content |-> "Email: a@x.com"]}

\* hashlib.sha256(content).hexdigest()
SHA256Hex(content) ==
    CASE content = "" ->
           "e3b0c44298fc1c149afbf4c8996fb92427ae41e4649b934ca495991b7852b855"
      [] content = "Email: a@x.com" ->
           "cc7d9f974e62f20055827179019237159c7860637852e40029c49531b273616e"
      [] content = LongText ->
           "5fda1e976bda5e048c8fa9e673ba5ce81a8458172b4a7568a407e39c88da7202"

\* reading the file: it is read, or open or read raises
ReadOutcomes == {"ok", "error"}
\* an upload: it returns True, returns False, or raises
UploadOutcomes == {"true", "false", "raises"}
\* writing the processed-hashes file
SaveOutcomes == {"ok", "error"}

\* _calculate_file_hash: the digest, "" when the file cannot be read
_calculate_file_hash(file, read) ==
    IF read = "ok" THEN SHA256Hex(file.content) ELSE ""

\* a duplicate test that finds no duplicate
_is_duplicate_never(h, file_hash) == FALSE

\* _is_duplicate: file_hash in self.processed_hashes
_is_duplicate(h, file_hash) == file_hash \in h.processed_hashes

\* what the libraries and the model do on a file of the folder: a PDF gives
\* its text directly, a .docx its text as one paragraph, python-docx cannot
\* open a .doc
WatchEnv(file, llm) ==
    LET suffix == StrLower(PathSuffix(file.path))
    IN  [direct |-> IF suffix = ".pdf" THEN Returns(file.content) ELSE Raises,
         ocr1 |-> ConvertRaises,
         ocr2 |-> ConvertRaises,
         docx |-> IF suffix = ".docx" THEN DocReturns(<<file.content>>) ELSE DocRaises,
         llm |-> llm]

\* the model's answers while the folder is watched
WatchLlm(p) == IF p.llm # "none" THEN {LlmRaises, LlmText("123")} ELSE {LlmRaises}

\* self.parser.parse(file_path) on the files of the folder, for each parser
\* that __init__ can build and each answer of the model
WatchParseTable ==
    [p \in {Construct(a, e, r) : a \in BOOLEAN, e \in BOOLEAN, r \in BOOLEAN} |->
       [file \in WatchFiles |->
          [llm \in {LlmRaises, LlmText("123")} |->
             parse(p, file.path, WatchEnv(file, llm))]]]

\* what one call of _process_file met and did: the hashes in memory and in
\* the file when it began, the uploads it attempted in their order and what
\* each gave, and what the read and the write of _mark_as_processed gave
Handled(h, file, via, file_hash, outcome, parsed, uploads) ==
    [NoHandled EXCEPT !.called = TRUE, !.file = file, !.via = via,
                      !.before = h.processed_hashes, !.stored = hashes_file,
                      !.hash = file_hash, !.outcome = outcome, !.parsed = parsed,
                      !.uploads = uploads]

\* the uploads that succeed: Sheets always tried, the portal when configured
Uploads(h, sheets, portal) ==
    (IF sheets = "true" THEN {"sheets"} ELSE {})
    \cup (IF h.portal_uploader /\ portal = "true" THEN {"portal"} ELSE {})

\* _mark_as_processed and _save_processed_hashes
_mark_as_processed(file, read, save) ==
    /\ handler' = [handler EXCEPT !.processed_hashes =
                     IF _calculate_file_hash(file, read) # ""
                     THEN @ \cup {_calculate_file_hash(file, read)} ELSE @]
    /\ hashes_file' = IF save = "ok" THEN handler'.processed_hashes ELSE hashes_file

\* an upload whose exception leaves the upload steps
UploadStepsUncaught(h, sheets, portal) ==
    IF sheets = "raises"
    THEN [attempts |-> <<"sheets">>, sheets_success |-> FALSE,
          portal_success |-> FALSE, escaped |-> TRUE]
    ELSE [attempts |-> <<"sheets">> \o (IF h.portal_uploader THEN <<"portal">> ELSE << >>),
          sheets_success |-> sheets = "true",
          portal_success |-> h.portal_uploader /\ portal = "true",
          escaped |-> h.portal_uploader /\ portal = "raises"]

\* the two uploads of _process_file, each in its own try block: Sheets
\* first, then the portal when one is configured; an exception of an upload
\* is logged and leaves its success flag False
UploadSteps(h, sheets, portal) ==
    [attempts |-> <<"sheets">> \o (IF h.portal_uploader THEN <<"portal">> ELSE << >>),
     sheets_success |-> sheets = "true",
     portal_success |-> h.portal_uploader /\ portal = "true",
     escaped |-> FALSE]

\* a test that asks for both uploads
MarkNeededBoth(steps) == steps.sheets_success /\ steps.portal_success

\* if sheets_success or portal_success
MarkNeeded(steps) == steps.sheets_success \/ steps.portal_success

\* the outcomes of the portal upload: none when no uploader is configured
PortalOutcomes(h) == IF h.portal_uploader THEN UploadOutcomes ELSE {"skipped"}

\* the record of a call that went on to the uploads
Uploaded(h, file, via, file_hash, outcome, sheets, portal, read, save) ==
    [Handled(h, file, via, file_hash, outcome, TRUE, Uploads(h, sheets, portal))
       EXCEPT !.identity = TRUE,
              !.attempts = UploadSteps(h, sheets, portal).attempts,
              !.sheets = sheets, !.portal = portal,
              !.mark_read = read, !.mark_save = save]

\* _process_file from the upload to Sheets on: candidate_data has an identity
UploadAndMark(file, via, file_hash) ==
    \E sheets \in UploadOutcomes, portal \in PortalOutcomes(handler) :
      IF UploadSteps(handler, sheets, portal).escaped
      THEN /\ handled' = Uploaded(handler, file, via, file_hash, "error",
                                  sheets, portal, "none", "none")
           /\ UNCHANGED <<handler, hashes_file>>
      ELSE IF ~MarkNeeded(UploadSteps(handler, sheets, portal))
      THEN /\ handled' = Uploaded(handler, file, via, file_hash, "failed",
                                  sheets, portal, "none", "none")
           /\ UNCHANGED <<handler, hashes_file>>
      ELSE \E read \in ReadOutcomes, save \in SaveOutcomes :
             /\ handled' = Uploaded(handler, file, via, file_hash, "processed",
                                    sheets, portal, read, save)
             /\ _mark_as_processed(file, read, save)

\* _process_file once parser.parse has been called: call is what it did
AfterParse(file, via, file_hash, call) ==
    IF call.phase = "raised"
    THEN /\ handled' = Handled(handler, file, via, file_hash, "error", TRUE, {})
         /\ UNCHANGED <<handler, hashes_file>>
    ELSE IF ~Truthy(call.result) \/ ~Truthy(DictGet(call.result, "identity"))
    THEN /\ handled' = Handled(handler, file, via, file_hash, "no_data", TRUE, {})
         /\ UNCHANGED <<handler, hashes_file>>
    ELSE UploadAndMark(file, via, file_hash)

\* _process_file once the hash of the duplicate test has been read
AfterHash(file, via, file_hash) ==
    IF _is_duplicate(handler, file_hash)
    THEN /\ handled' = Handled(handler, file, via, file_hash, "duplicate", FALSE, {})
         /\ UNCHANGED <<handler, hashes_file>>
    ELSE \E llm \in WatchLlm(parser) :
           AfterParse(file, via, file_hash, WatchParseTable[parser][file][llm])

\* _process_file(file_path)
ProcessFile(file, via) ==
    IF StrLower(PathSuffix(file.path)) \notin supported_extensions
    THEN /\ handled' = Handled(handler, file, via, "", "unsupported", FALSE, {})
         /\ UNCHANGED <<handler, hashes_file>>
    ELSE \E read \in ReadOutcomes :
           AfterHash(file, via, _calculate_file_hash(file, read))

\* _load_processed_hashes: the stored hashes, none when the file cannot be
\* read
LoadOutcomes == {"ok", "error"}
_load_processed_hashes(load) == IF load = "ok" THEN hashes_file ELSE {}

\* the folders found at a start: at most MaxFolder files
MaxFolder == 2
Folders == {folder \in SUBSET WatchFiles : Cardinality(folder) <= MaxFolder}

\* the first start: no processed-hashes file yet, any files in the folder
WatcherInit ==
    /\ \E llama_available \in BOOLEAN, model_exists \in BOOLEAN, load_raises \in BOOLEAN :
          parser = Construct(llama_available, model_exists, load_raises)
    /\ last = NoCall
    /\ again = NoCall
    /\ extraction = NoExtraction
    /\ \E portal \in BOOLEAN :
          handler = [processed_hashes |-> {}, portal_uploader |-> portal]
    /\ hashes_file = {}
    /\ scan \in Folders
    /\ handled = NoHandled
    /\ calls = NoCalls
    /\ uploader = NoUpload
    /\ watcher = NoWatcher

\* one turn of the loop of _process_existing_files: files of another suffix
\* are passed over
ProcessExistingFile ==
    /\ \E file \in scan :
         /\ scan' = scan \ {file}
         /\ IF StrLower(PathSuffix(file.path)) \in {".pdf", ".docx", ".doc"}
            THEN ProcessFile(file, "scan")
            ELSE UNCHANGED <<handler, hashes_file, handled>>
    /\ UNCHANGED <<pvars, calls, uploader, watcher>>

\* on_created, once the observer runs: start() scans the folder first
OnCreated ==
    /\ scan = {}
    /\ \E file \in WatchFiles : ProcessFile(file, "created")
    /\ UNCHANGED scan
    /\ UNCHANGED <<pvars, calls, uploader, watcher>>

\* on_modified does nothing
OnModified ==
    /\ scan = {}
    /\ UNCHANGED <<pvars, hvars, calls, uploader, watcher>>

\* the program is stopped and started again: CandidateWatcher.__init__ and
\* start()
Restart ==
    /\ \E load \in LoadOutcomes :
         handler' = [handler EXCEPT !.processed_hashes = _load_processed_hashes(load)]
    /\ scan' \in Folders
    /\ handled' = NoHandled
    /\ UNCHANGED hashes_file
    /\ UNCHANGED <<pvars, calls, uploader, watcher>>

WatcherNext == ProcessExistingFile \/ OnCreated \/ OnModified \/ Restart

WatcherSpec == WatcherInit /\ [][WatcherNext]_vars

(***************************************************************************)
(* parse called by several threads on one CandidateParser                  *)
(***************************************************************************)
\* the text of a parse that keeps it in a field of the parser: the text of
\* the thread that extracted last
SharedText(cs, t) ==
    IF \E u \in Threads \ {t} : cs[u].phase = "running" /\ cs[u].reached = "extract_text"
    THEN cs[CHOOSE u \in Threads \ {t} :
              cs[u].phase = "running" /\ cs[u].reached = "extract_text"].text
    ELSE cs[t].text

\* the text a call hands to deterministic_extract and llama_extract: the
\* local variable text of parse
OwnText(cs, t) == cs[t].text

ConcurrentInit ==
    /\ \E llama_available \in BOOLEAN, model_exists \in BOOLEAN, load_raises \in BOOLEAN :
          parser = Construct(llama_available, model_exists, load_raises)
    /\ last = NoCall
    /\ again = NoCall
    /\ extraction = NoExtraction
    /\ HandlerIdle
    /\ calls = NoCalls
    /\ uploader = NoUpload
    /\ watcher = NoWatcher

\* a thread enters parse(file_path) on a document no other thread is parsing
EnterParse(t) ==
    /\ calls[t].phase = "none"
    /\ \E file \in WatchFiles, llm \in WatchLlm(parser) :
         /\ \A u \in Threads \ {t} :
              calls[u].phase = "none" \/ calls[u].file_path # file.path
         /\ calls' = [calls EXCEPT ![t] =
                        [NoCall EXCEPT !.phase = "running", !.reached = "entered",
                                       !.file_path = file.path,
                                       !.env = WatchEnv(file, llm)]]
    /\ UNCHANGED <<pvars, hvars, uploader, watcher>>

\* text = self.extract_text(file_path), and the return on empty text
AfterExtractText(call, ex) ==
    IF ex.raises
    THEN [call EXCEPT !.phase = "raised", !.reached = "extract_text", !.steps = ex.steps]
    ELSE IF ex.text = ""
    THEN [call EXCEPT !.phase = "returned", !.reached = "extract_text", !.text = ex.text,
                      !.steps = ex.steps, !.result = EmptyDict]
    ELSE [call EXCEPT !.reached = "extract_text", !.text = ex.text, !.steps = ex.steps]

StepExtractText(t) ==
    /\ calls[t].phase = "running" /\ calls[t].reached = "entered"
    /\ calls' = [calls EXCEPT ![t] =
                   AfterExtractText(calls[t], extract_text(calls[t].file_path, calls[t].env))]
    /\ UNCHANGED <<pvars, hvars, uploader, watcher>>

\* deterministic_result = self.deterministic_extract(text)
StepDeterministicExtract(t) ==
    /\ calls[t].phase = "running" /\ calls[t].reached = "extract_text"
    /\ calls' = [calls EXCEPT ![t] =
                   [calls[t] EXCEPT !.reached = "deterministic_extract",
                                    !.deterministic_result =
                                       DeterministicResult(OwnText(calls, t))]]
    /\ UNCHANGED <<pvars, hvars, uploader, watcher>>

\* llama_result = self.llama_extract(text) if self.llm else {}
AfterLlamaExtract(call, llama) ==
    IF llama.raises
    THEN [call EXCEPT !.phase = "raised", !.reached = "llama_extract"]
    ELSE [call EXCEPT !.reached = "llama_extract", !.llama_result = llama.value]

StepLlamaExtract(t) ==
    /\ calls[t].phase = "running" /\ calls[t].reached = "deterministic_extract"
    /\ calls' = [calls EXCEPT ![t] =
                   AfterLlamaExtract(calls[t], LlamaResult(parser, calls[t].env))]
    /\ UNCHANGED <<pvars, hvars, uploader, watcher>>

\* the merge, the candidate_id and the return
StepMerge(t) ==
    /\ calls[t].phase = "running" /\ calls[t].reached = "llama_extract"
    /\ calls' = [calls EXCEPT ![t] =
                   ParseMerged(calls[t], calls[t].deterministic_result,
                               calls[t].llama_result,
                               Merge(calls[t].deterministic_result, calls[t].llama_result,
                                     calls[t].file_path))]
    /\ UNCHANGED <<pvars, hvars, uploader, watcher>>

\* the caller of a finished call drops its record
LeaveParse(t) ==
    /\ calls[t].phase \in {"returned", "raised"}
    /\ calls' = [calls EXCEPT ![t] = NoCall]
    /\ UNCHANGED <<pvars, hvars, uploader, watcher>>

ConcurrentNext ==
    \E t \in Threads :
      \/ EnterParse(t)
      \/ StepExtractText(t)
      \/ StepDeterministicExtract(t)
      \/ StepLlamaExtract(t)
      \/ StepMerge(t)
      \/ LeaveParse(t)

ConcurrentSpec == ConcurrentInit /\ [][ConcurrentNext]_vars

(***************************************************************************)
(* SVPortalUploader.upload_candidate: the API first, then the browser      *)
(***************************************************************************)
endpoints ==
    <<"/candidates", "/candidates/create", "/api/candidates",
      "/api/candidates/create", "/admin/candidates", "/admin/candidates/create">>

auth_endpoints == <<"/api/auth/login", "/api/login", "/login", "/auth/login">>

\* what a POST gives: the status code of the response, or requests raises a
\* RequestException
PostOutcomes == {"200", "201", "401", "500", "raises"}

\* response.status_code in [200, 201]
Accepted(status) == status \in {"200", "201"}

\* what the endpoint did with the record
Gave(status) ==
    IF Accepted(status) THEN "accepted"
    ELSE IF status = "401" THEN "unauthorized" ELSE "failed"

\* the answers of the four authentication endpoints
AuthAnswers == [1..Len(auth_endpoints) -> {"200", "401", "raises"}]

\* _authenticate_api: True when one authentication endpoint answers 200
_authenticate_api(answers) == \E i \in 1..Len(auth_endpoints) : answers[i] = "200"

\* one more request or browser step of the upload
Event(u, op, gave) ==
    [u EXCEPT !.trace = Append(@, [op |-> op, endpoint |-> endpoints[u.endpoint],
                                   gave |-> gave])]

\* a loop that gives up after the third endpoint
NextEndpointEarly(u) ==
    IF u.endpoint < 3
    THEN [u EXCEPT !.pc = "post", !.endpoint = @ + 1]
    ELSE [u EXCEPT !.pc = "browser"]

\* the for loop of _try_api_upload goes on to the next endpoint; after the
\* last one _try_api_upload returns False and upload_candidate falls back to
\* the browser
NextEndpoint(u) ==
    IF u.endpoint < Len(endpoints)
    THEN [u EXCEPT !.pc = "post", !.endpoint = @ + 1]
    ELSE [u EXCEPT !.pc = "browser"]

\* return True of _try_api_upload and of upload_candidate
ReturnTrue(u) == [u EXCEPT !.pc = "done", !.result = "true"]

PortalInit ==
    /\ parser = Construct(FALSE, FALSE, FALSE)
    /\ last = NoCall
    /\ again = NoCall
    /\ extraction = NoExtraction
    /\ HandlerIdle
    /\ calls = NoCalls
    /\ uploader = NoUpload
    /\ watcher = NoWatcher

\* upload_candidate is called: _try_api_upload begins with the first endpoint
UploadCandidate ==
    /\ uploader.pc = "idle"
    /\ uploader' = [NoUpload EXCEPT !.pc = "post", !.endpoint = 1]
    /\ UNCHANGED <<pvars, hvars, calls, watcher>>

\* the POST to the endpoint of this turn of the loop
PostRecord ==
    /\ uploader.pc = "post"
    /\ \E status \in PostOutcomes :
         uploader' =
           IF Accepted(status) THEN ReturnTrue(Event(uploader, "post", Gave(status)))
           ELSE IF status = "401"
           THEN [Event(uploader, "post", Gave(status)) EXCEPT !.pc = "auth"]
           ELSE NextEndpoint(Event(uploader, "post", Gave(status)))
    /\ UNCHANGED <<pvars, hvars, calls, watcher>>

\* after a 401: self._authenticate_api()
Authenticate ==
    /\ uploader.pc = "auth"
    /\ \E answers \in AuthAnswers :
         uploader' =
           IF _authenticate_api(answers)
           THEN [Event(uploader, "auth", "ok") EXCEPT !.pc = "retry"]
           ELSE NextEndpoint(Event(uploader, "auth", "failed"))
    /\ UNCHANGED <<pvars, hvars, calls, watcher>>

\* the second POST to the same endpoint, after the authentication
RetryPost ==
    /\ uploader.pc = "retry"
    /\ \E status \in PostOutcomes :
         uploader' =
           IF Accepted(status) THEN ReturnTrue(Event(uploader, "retry", Gave(status)))
           ELSE NextEndpoint(Event(uploader, "retry", Gave(status)))
    /\ UNCHANGED <<pvars, hvars, calls, watcher>>

\* _playwright_upload: it returns True or False, its exceptions are caught
PlaywrightUpload ==
    /\ uploader.pc = "browser"
    /\ \E success \in {"true", "false"} :
         uploader' = [Event(uploader, "browser", success)
                        EXCEPT !.pc = "done", !.result = success]
    /\ UNCHANGED <<pvars, hvars, calls, watcher>>

\* the caller has the return value
UploadReturns ==
    /\ uploader.pc = "done"
    /\ uploader' = NoUpload
    /\ UNCHANGED <<pvars, hvars, calls, watcher>>

PortalNext ==
    \/ UploadCandidate
    \/ PostRecord
    \/ Authenticate
    \/ RetryPost
    \/ PlaywrightUpload
    \/ UploadReturns

PortalSpec == PortalInit /\ [][PortalNext]_vars

(***************************************************************************)
(* CandidateWatcher: the Drive polling thread beside the observer thread   *)
(***************************************************************************)
\* the files of the Drive folder, by their ids
DriveFiles == {"d1", "d2"}

\* the content hash of the file a Drive file is downloaded to
DriveHash(file_id) ==
    IF file_id = "d1" THEN SHA256Hex("Email: a@x.com") ELSE SHA256Hex(LongText)

\* list_files returns at most MaxListing entries; an id can stand in it twice
MaxListing == 2
Listings ==
    UNION {[1..n -> DriveFiles] : n \in 0..MaxListing}

\* no save is under way in a thread
NoData == [taken |-> FALSE, hashes |-> {}, drive_file_ids |-> {}]

\* the watcher once start() has run with a Drive fetcher configured: pc is
\* the position of the polling thread, observer that of the observer thread;
\* file_ids are the ids stored in the processed-hashes file, folder the
\* downloaded files the observer has still to handle; downloads, failures,
\* failed and log keep what happened
StartedWatcher ==
    [pc |-> "test", drive_polling_active |-> TRUE, stopped |-> FALSE,
     processed_drive_ids |-> {}, file_ids |-> {},
     files |-> << >>, at |-> 0, at_poll |-> {}, data |-> NoData,
     folder |-> {}, observer |-> "idle", observed |-> NoData,
     downloads |-> [f \in DriveFiles |-> 0], failures |-> {}, failed |-> {},
     log |-> << >>]

\* the snapshot _save_processed_hashes builds from the two sets
Snapshot(h, w) ==
    [taken |-> TRUE, hashes |-> h.processed_hashes,
     drive_file_ids |-> w.processed_drive_ids]

\* processed_ids bound to a copy of the set made when the poll began
processed_ids_copy(w) == w.at_poll

\* processed_ids = self.event_handler.processed_drive_ids: the set itself
processed_ids(w) == w.processed_drive_ids

\* a loop that never looks at the flag
LoopGoesOnForever(w) == TRUE

\* while self.drive_polling_active
LoopGoesOn(w) == w.drive_polling_active

DriveInit ==
    /\ parser = Construct(FALSE, FALSE, FALSE)
    /\ last = NoCall
    /\ again = NoCall
    /\ extraction = NoExtraction
    /\ HandlerIdle
    /\ calls = NoCalls
    /\ uploader = NoUpload
    /\ watcher = NoWatcher

\* start(): the flag is set and the polling thread started
StartPolling ==
    /\ watcher.pc = "none"
    /\ watcher' = StartedWatcher
    /\ UNCHANGED <<pvars, hvars, calls, uploader>>

\* stop(): self.drive_polling_active = False
StopPolling ==
    /\ watcher.pc # "none"
    /\ watcher.drive_polling_active
    /\ watcher' = [watcher EXCEPT !.drive_polling_active = FALSE, !.stopped = TRUE]
    /\ UNCHANGED <<pvars, hvars, calls, uploader>>

\* the polling thread evaluates the condition of its while loop
LoopTest ==
    /\ watcher.pc = "test"
    /\ watcher' = IF LoopGoesOn(watcher)
                  THEN [watcher EXCEPT !.pc = "list", !.log = << >>,
                                       !.at_poll = watcher.processed_drive_ids]
                  ELSE [watcher EXCEPT !.pc = "exited"]
    /\ UNCHANGED <<pvars, hvars, calls, uploader>>

\* files = self.drive_fetcher.list_files()
ListFiles ==
    /\ watcher.pc = "list"
    /\ \E listing \in Listings :
         watcher' = [watcher EXCEPT !.pc = "files", !.files = listing, !.at = 1]
    /\ UNCHANGED <<pvars, hvars, calls, uploader>>

\* what the loop did with one entry of the listing
Logged(w, file_id, did) ==
    [w EXCEPT !.log = Append(@, [id |-> file_id, before |-> w.downloads[file_id],
                                 did |-> did])]

\* one turn of the for loop: the entry is skipped, or download_file is called
\* and returns a path or None; with a path the id is added and the save
\* begins; after the last entry the thread sleeps
NextFile ==
    /\ watcher.pc = "files"
    /\ IF watcher.at > Len(watcher.files)
       THEN watcher' = [watcher EXCEPT !.pc = "sleep", !.files = << >>, !.at = 0]
       ELSE IF watcher.files[watcher.at] \in processed_ids(watcher)
       THEN watcher' = [Logged(watcher, watcher.files[watcher.at], "skipped")
                          EXCEPT !.at = @ + 1]
       ELSE \/ watcher' = [Logged(watcher, watcher.files[watcher.at], "failed")
                             EXCEPT !.at = @ + 1,
                                    !.failures = @ \cup {watcher.files[watcher.at]}]
            \/ watcher' = [Logged(watcher, watcher.files[watcher.at], "downloaded")
                             EXCEPT !.pc = "snapshot",
                                    !.processed_drive_ids = @ \cup {watcher.files[watcher.at]},
                                    !.downloads[watcher.files[watcher.at]] =
                                        IF @ < 2 THEN @ + 1 ELSE @,
                                    !.folder = @ \cup {watcher.files[watcher.at]}]
    /\ UNCHANGED <<pvars, hvars, calls, uploader>>

\* _save_processed_hashes in the polling thread: data is built
DriveSnapshot ==
    /\ watcher.pc = "snapshot"
    /\ watcher' = [watcher EXCEPT !.pc = "write", !.data = Snapshot(handler, watcher)]
    /\ UNCHANGED <<pvars, hvars, calls, uploader>>

\* _save_processed_hashes in the polling thread: data is written
DriveWrite ==
    /\ watcher.pc = "write"
    /\ hashes_file' = watcher.data.hashes
    /\ watcher' = [watcher EXCEPT !.pc = "files", !.at = @ + 1, !.data = NoData,
                                  !.file_ids = watcher.data.drive_file_ids]
    /\ UNCHANGED <<pvars, handler, scan, handled, calls, uploader>>

\* a poll ends in an exception: the handler of the loop logs it
PollRaises ==
    /\ watcher.pc \in {"list", "files"}
    /\ watcher' = [watcher EXCEPT !.pc = "sleep60", !.files = << >>, !.at = 0]
    /\ UNCHANGED <<pvars, hvars, calls, uploader>>

\* time.sleep(DRIVE_POLL_INTERVAL) or time.sleep(60) returns
Sleep ==
    /\ watcher.pc \in {"sleep", "sleep60"}
    /\ watcher' = [watcher EXCEPT !.pc = "test"]
    /\ UNCHANGED <<pvars, hvars, calls, uploader>>

\* the observer thread handles a downloaded file: _process_file finds a
\* duplicate, or fails on it, or uploads it and _mark_as_processed adds its
\* hash and begins the save
ObserverProcess ==
    /\ watcher.pc # "none"
    /\ watcher.observer = "idle"
    /\ \E file_id \in watcher.folder :
         IF _is_duplicate(handler, DriveHash(file_id))
         THEN /\ watcher' = [watcher EXCEPT !.folder = @ \ {file_id}]
              /\ UNCHANGED handler
         ELSE \/ /\ watcher' = [watcher EXCEPT !.folder = @ \ {file_id},
                                               !.failed = @ \cup {file_id}]
                 /\ UNCHANGED handler
              \/ /\ watcher' = [watcher EXCEPT !.folder = @ \ {file_id},
                                               !.observer = "snapshot"]
                 /\ handler' = [handler EXCEPT !.processed_hashes =
                                                  @ \cup {DriveHash(file_id)}]
    /\ UNCHANGED <<pvars, hashes_file, scan, handled, calls, uploader>>

\* _save_processed_hashes in the observer thread: data is built
ObserverSnapshot ==
    /\ watcher.pc # "none"
    /\ watcher.observer = "snapshot"
    /\ watcher' = [watcher EXCEPT !.observer = "write",
                                  !.observed = Snapshot(handler, watcher)]
    /\ UNCHANGED <<pvars, hvars, calls, uploader>>

\* _save_processed_hashes in the observer thread: data is written
ObserverWrite ==
    /\ watcher.pc # "none"
    /\ watcher.observer = "write"
    /\ hashes_file' = watcher.observed.hashes
    /\ watcher' = [watcher EXCEPT !.observer = "idle", !.observed = NoData,
                                  !.file_ids = watcher.observed.drive_file_ids]
    /\ UNCHANGED <<pvars, handler, scan, handled, calls, uploader>>

\* the steps of the polling thread
PollingThread ==
    LoopTest \/ ListFiles \/ NextFile \/ DriveSnapshot \/ DriveWrite \/ PollRaises \/ Sleep

\* the steps of the observer thread
ObserverThread == ObserverProcess \/ ObserverSnapshot \/ ObserverWrite

DriveNext == StartPolling \/ StopPolling \/ PollingThread \/ ObserverThread

DriveSpec == DriveInit /\ [][DriveNext]_vars

\* the polling thread is scheduled again and again, and the calls it waits
\* in return
DriveFairSpec == DriveSpec /\ WF_vars(PollingThread)

(***************************************************************************)
(* The properties                                                          *)
(***************************************************************************)
\* the call returned the merged record
MergeReturned(call) == call.phase = "returned" /\ call.reached = "merge"

\* record[group][key], None when the key is absent
Field(record, group, key) == DictGet(record.v[group], key)

\* a record with every group and every key of the schema
FullyKeyed(record) ==
    /\ IsDict(record)
    /\ GROUP_KEYS \subseteq DOMAIN record.v
    /\ IsDict(record.v["identity"]) /\ IDENTITY_KEYS \subseteq DOMAIN record.v["identity"].v
    /\ IsDict(record.v["documents"]) /\ DOCUMENT_KEYS \subseteq DOMAIN record.v["documents"].v
    /\ IsDict(record.v["addresses"]) /\ ADDRESS_KEYS \subseteq DOMAIN record.v["addresses"].v
    /\ IsList(record.v["education"])
    /\ IsList(record.v["experience"])

\* C1: every record parse returns is fully keyed: identity, documents and
\* addresses hold every key of the schema, education and experience are
\* sequences, whatever the text and the generative result, and with no model.
C1_FullyKeyed == last.phase = "returned" => FullyKeyed(last.result)

\* C2: once the merge of parse has run, identity.candidate_id is non-empty,
\* for every deterministic result, generative result and source path.
C2_CandidateIdNonEmpty ==
    MergeReturned(last) =>
      /\ IsDict(last.result.v["identity"])
      /\ Truthy(Field(last.result, "identity", "candidate_id"))

C2_Witness ==
    /\ MergeReturned(last)
    /\ PyEq(last.llama_result, EmptyDict)
    /\ ~HasKey(last.deterministic_result.v["identity"], "candidate_id")
    /\ last.file_path = "c.docx"
    /\ PyEq(Field(last.result, "identity", "candidate_id"), PyStr("2A3C5E41"))

\* the group the generative result gives, the empty dict when it gives none
GenGroup(llama_result, group) ==
    IF IsDict(llama_result) /\ IsDict(DictGet(llama_result, group))
    THEN DictGet(llama_result, group)
    ELSE EmptyDict

\* C3: in the identity and documents groups the merged value of a field is the
\* generative value when that one is non-empty, and the deterministic value
\* otherwise: an empty generative value erases nothing.
C3_MergePrecedence ==
    MergeReturned(last) =>
      \A group \in {"identity", "documents"} :
        \A key \in DOMAIN last.deterministic_result.v[group].v
                   \cup DOMAIN GenGroup(last.llama_result, group).v :
          IF Truthy(DictGet(GenGroup(last.llama_result, group), key))
          THEN PyEq(Field(last.result, group, key),
                    DictGet(GenGroup(last.llama_result, group), key))
          ELSE HasKey(last.deterministic_result.v[group], key)
               => PyEq(Field(last.result, group, key),
                       Field(last.deterministic_result, group, key))

C3_Witness ==
    /\ MergeReturned(last)
    /\ PyEq(Field(last.deterministic_result, "identity", "email"), PyStr("a@x.com"))
    /\ PyEq(DictGet(GenGroup(last.llama_result, "identity"), "email"), PyStr(""))
    /\ PyEq(DictGet(GenGroup(last.llama_result, "identity"), "name"), PyStr("Jane Roe"))
    /\ PyEq(Field(last.result, "identity", "email"), PyStr("a@x.com"))
    /\ PyEq(Field(last.result, "identity", "name"), PyStr("Jane Roe"))
    /\ PyEq(Field(last.result, "documents", "pan_number"), PyStr("ZZZZZ9999Z"))

\* two records equal in every group and field but identity.candidate_id
EqualExceptCandidateId(a, b) ==
    /\ IsDict(a) /\ IsDict(b)
    /\ DOMAIN a.v = DOMAIN b.v
    /\ \A group \in DOMAIN a.v \ {"identity"} : PyEq(a.v[group], b.v[group])
    /\ "identity" \in DOMAIN a.v =>
         /\ IsDict(a.v["identity"]) /\ IsDict(b.v["identity"])
         /\ DOMAIN a.v["identity"].v \ {"candidate_id"}
              = DOMAIN b.v["identity"].v \ {"candidate_id"}
         /\ \A key \in DOMAIN a.v["identity"].v \ {"candidate_id"} :
              PyEq(a.v["identity"].v[key], b.v["identity"].v[key])

HexUpperSet == DigitSet \cup {"A", "B", "C", "D", "E", "F"}

\* the generative result gives identity.candidate_id a value
GenGivesCandidateId(llama_result) ==
    Truthy(DictGet(GenGroup(llama_result, "identity"), "candidate_id"))

\* C6: a candidate_id the merge left empty is set to the first 8 hexadecimal
\* characters, upper-cased, of the digest of the resolved identity.email when
\* that is non-empty and of the source path otherwise; with an email resolved
\* the id is the same for every path.
C6_IdentifierDerivation ==
    (MergeReturned(last) /\ ~GenGivesCandidateId(last.llama_result)) =>
      LET email == Field(last.result, "identity", "email")
          id == Field(last.result, "identity", "candidate_id")
      IN  /\ IsStr(id)
          /\ Len(id.v) = 8
          /\ \A i \in 1..8 : Char(id.v, i) \in HexUpperSet
          /\ id.v = StrUpper(SubSeq(MD5Hex(IF Truthy(email) THEN email.v ELSE last.file_path),
                                    1, 8))
          /\ Truthy(email) =>
               \A path \in Paths :
                 PyEq(candidate_id_source(last.result.v["identity"], path), email)

C6_Witness ==
    /\ MergeReturned(last)
    /\ ~GenGivesCandidateId(last.llama_result)
    /\ PyEq(Field(last.result, "identity", "email"), PyStr("a@x.com"))
    /\ last.file_path = "cv/a.pdf"
    /\ PyEq(Field(last.result, "identity", "candidate_id"), PyStr("74317378"))

SupportedSuffixes == {".pdf", ".docx", ".doc"}

\* C7: extract_text never raises, whichever of direct extraction, page
\* rasterization, OCR and document loading fails, and for a file that is
\* neither a PDF nor a word-processor document it returns "" and invokes no
\* extraction step.
C7_ExtractTextTotal ==
    last.phase # "none" =>
      /\ ~extract_text(last.file_path, last.env).raises
      /\ ~(last.phase = "raised" /\ last.reached = "extract_text")
      /\ StrLower(PathSuffix(last.file_path)) \notin SupportedSuffixes =>
           /\ extract_text(last.file_path, last.env).text = ""
           /\ extract_text(last.file_path, last.env).steps = <<>>
           /\ last.steps = <<>>

C7_Witness ==
    /\ last.phase = "returned"
    /\ last.file_path = "cv/b.PDF"
    /\ last.env.direct.raises
    /\ ~last.env.ocr2.raises
    /\ Len(last.env.ocr2.pages) = 2
    /\ last.env.ocr2.pages[2].raises
    /\ last.text = ""
    /\ last.steps = <<"pdf_extract_text", "convert_from_path", "image_to_string",
                      "image_to_string">>

HasAllGroups(record) ==
    /\ IsDict(record)
    /\ GROUP_KEYS \subseteq DOMAIN record.v
    /\ \A group \in {"identity", "documents", "addresses"} : IsDict(record.v[group])
    /\ \A group \in {"education", "experience"} : IsList(record.v[group])

\* C9: for every text, the empty string included, deterministic_extract
\* returns a record that holds the groups identity, documents, education,
\* experience and addresses.
C9_AllGroupsPresent ==
    /\ extraction.called => HasAllGroups(extraction.result)
    /\ last.reached \in {"llama_extract", "merge"} => HasAllGroups(last.deterministic_result)

C9_Witness ==
    /\ extraction.called
    /\ extraction.text = ""
    /\ HasAllGroups(extraction.result)
    /\ PyEq(extraction.result.v["identity"], EmptyDict)
    /\ PyEq(extraction.result.v["experience"], PyList(<<>>))

\* the model call failed, or its response is not usable
GenerationFails(p, env) ==
    \/ p.llm = "none"
    \/ env.llm.kind \in {"raise", "nochoices", "notext"}
    \/ env.llm.kind = "text" /\ ~ParseResponse(env.llm.text).ok

\* C10: llama_extract never raises, and it returns the empty structure when
\* no model is loaded, when inference raises, when the response has no usable
\* choices or text, and when the response text is not valid JSON; parse does
\* not end with an exception of llama_extract.
C10_LlamaExtractTotal ==
    (last.phase # "none" /\ last.text # "") =>
      /\ ~llama_extract(parser.llm, last.env).raises
      /\ GenerationFails(parser, last.env) =>
           PyEq(llama_extract(parser.llm, last.env).value, EmptyDict)
      /\ ~(last.phase = "raised" /\ last.reached = "llama_extract")
      /\ (GenerationFails(parser, last.env) /\ parser.llm # "none") =>
           /\ MergeReturned(last)
           /\ PyEq(last.llama_result, EmptyDict)

C10_Witness ==
    /\ parser.llm = "loaded"
    /\ last.env.llm = LlmText("{bad}")
    /\ MergeReturned(last)
    /\ PyEq(last.llama_result, EmptyDict)
    /\ PyEq(Field(last.result, "identity", "email"), PyStr("a@x.com"))

\* C11: the merge of parse never raises on the generative result: whatever
\* JSON value the model's output parses to (groups missing, a group that is a
\* list or a string, a top-level value that is no object), parse returns a
\* record.
C11_MergeNeverRaises ==
    (last.phase # "none" /\ last.text # "") =>
      /\ last.phase = "returned"
      /\ ~(last.phase = "raised" /\ last.reached = "merge")


SameAsAlone(call) ==
    /\ call.phase = parse(parser, call.file_path, call.env).phase
    /\ call.reached = parse(parser, call.file_path, call.env).reached
    /\ call.text = parse(parser, call.file_path, call.env).text
    /\ PyEq(call.deterministic_result,
            parse(parser, call.file_path, call.env).deterministic_result)
    /\ PyEq(call.result, parse(parser, call.file_path, call.env).result)

\* C13: with no model loaded, parse calls that threads make on distinct
\* documents through one parser, interleaved in any way, each end as the same
\* call made alone ends, with the same record; and no step of any parse call
\* changes a field of the parser.
C13_NoSharedMutableState ==
    /\ [](parser.llm = "none" =>
            \A t \in Threads :
              calls[t].phase \in {"returned", "raised"} => SameAsAlone(calls[t]))
    /\ [][parser' = parser]_vars

C13_Witness ==
    /\ parser.llm = "none"
    /\ calls[1].phase = "running" /\ calls[1].reached = "extract_text"
    /\ calls[1].file_path = "c.docx"
    /\ MergeReturned(calls[2])
    /\ calls[2].file_path = "cv/a.pdf"
    /\ PyEq(Field(calls[2].result, "identity", "email"), PyStr("jane@acme.com"))

\* the texts of the pages joined by a blank line, in page order
RECURSIVE JoinedPages(_)
JoinedPages(pages) ==
    IF Len(pages) = 0 THEN ""
    ELSE IF Len(pages) = 1 THEN pages[1].text
    ELSE JoinedPages(SubSeq(pages, 1, Len(pages) - 1)) \o "\n\n" \o pages[Len(pages)].text

\* the library calls of an OCR pass over n pages
OcrSteps(n) == <<"convert_from_path">> \o [i \in 1..n |-> "image_to_string"]

\* a parse of a PDF whose direct extraction returned
DirectReturned(call) ==
    /\ call.phase # "none"
    /\ StrLower(PathSuffix(call.file_path)) = ".pdf"
    /\ ~call.env.direct.raises

\* an OCR pass that raises nowhere
OcrReturns(ocr) == ~ocr.raises /\ \A i \in 1..Len(ocr.pages) : ~ocr.pages[i].raises

\* C14: when the direct extraction of a PDF returns a text of fewer than 100
\* characters once trimmed, OCR runs and extract_text returns the OCR texts of
\* the pages, in page order, joined by a blank line; when the trimmed text has
\* 100 characters or more, extract_text returns the direct text and OCR is
\* not invoked.
C14_OcrThreshold ==
    DirectReturned(last) =>
      IF Len(StrStrip(last.env.direct.text)) < 100
      THEN /\ Len(last.steps) >= 2
           /\ last.steps[1] = "pdf_extract_text" /\ last.steps[2] = "convert_from_path"
           /\ OcrReturns(last.env.ocr1) =>
                /\ last.text = JoinedPages(last.env.ocr1.pages)
                /\ last.steps = <<"pdf_extract_text">> \o OcrSteps(Len(last.env.ocr1.pages))
      ELSE /\ last.text = last.env.direct.text
           /\ last.steps = <<"pdf_extract_text">>

C14_Witness ==
    /\ DirectReturned(last)
    /\ last.env.direct.text = Text99
    /\ last.text = "Email: a@x.com"
    /\ last.steps = <<"pdf_extract_text", "convert_from_path", "image_to_string">>

\* a direct text of exactly 100 characters once trimmed is returned as it is,
\* untrimmed
C14_WitnessDirect ==
    /\ DirectReturned(last)
    /\ last.env.direct.text = Text100
    /\ Len(StrStrip(Text100)) = 100
    /\ last.text = Text100
    /\ last.steps = <<"pdf_extract_text">>

\* a parse of a PDF
PdfParsed(call) ==
    call.phase # "none" /\ StrLower(PathSuffix(call.file_path)) = ".pdf"

\* the OCR passes a call made: the positions of convert_from_path in its steps
OcrPasses(call) == {i \in 1..Len(call.steps) : call.steps[i] = "convert_from_path"}

\* C15: when the direct extraction of a PDF raises, extract_text runs the OCR
\* path and returns its output, and returns the empty string when that OCR
\* path raises too; and whenever the text of a PDF comes out empty an OCR
\* pass has been tried, the last one tried having raised or read nothing.
C15_PdfFallbackOrder ==
    PdfParsed(last) =>
      /\ last.env.direct.raises =>
           /\ Len(last.steps) >= 2
           /\ last.steps[1] = "pdf_extract_text" /\ last.steps[2] = "convert_from_path"
           /\ Cardinality(OcrPasses(last)) = 1
           /\ IF OcrReturns(last.env.ocr2)
              THEN /\ last.text = JoinedPages(last.env.ocr2.pages)
                   /\ last.steps = <<"pdf_extract_text">> \o OcrSteps(Len(last.env.ocr2.pages))
              ELSE last.text = ""
      /\ last.text = "" =>
           /\ OcrPasses(last) # {}
           /\ IF Cardinality(OcrPasses(last)) = 2 \/ last.env.direct.raises
              THEN OcrReturns(last.env.ocr2) => JoinedPages(last.env.ocr2.pages) = ""
              ELSE OcrReturns(last.env.ocr1) /\ JoinedPages(last.env.ocr1.pages) = ""

C15_Witness ==
    /\ PdfParsed(last)
    /\ last.env.direct.raises
    /\ OcrReturns(last.env.ocr2)
    /\ Len(last.env.ocr2.pages) = 2
    /\ last.text = "Email: a@x.com\n\nEmail: a@x.com"
    /\ last.steps = <<"pdf_extract_text", "convert_from_path", "image_to_string",
                      "image_to_string">>

\* both the direct extraction and the OCR path raise: the text is empty
C15_WitnessBothRaise ==
    /\ PdfParsed(last)
    /\ last.env.direct.raises
    /\ last.env.ocr2.raises
    /\ last.phase = "returned"
    /\ last.text = ""
    /\ last.steps = <<"pdf_extract_text", "convert_from_path">>

\* the generative result gives a non-empty sequence under key
GenSequence(llama_result, key) ==
    /\ IsDict(llama_result)
    /\ IsList(DictGet(llama_result, key))
    /\ Len(DictGet(llama_result, key).v) > 0

\* the generative result gives nothing under key, or an empty sequence
NoGenSequence(llama_result, key) ==
    /\ IsDict(llama_result)
    /\ \/ ~HasKey(llama_result, key)
       \/ PyEq(DictGet(llama_result, key), PyNone)
       \/ IsList(DictGet(llama_result, key)) /\ Len(DictGet(llama_result, key).v) = 0

\* C16: after the merge, education (resp. experience) is exactly the
\* generative sequence when the generative result gives a non-empty one, with
\* no element of the deterministic sequence kept, and is the deterministic
\* sequence unchanged when the generative one is absent or empty.
C16_SequencesReplacedWholesale ==
    MergeReturned(last) =>
      \A key \in {"education", "experience"} :
        /\ GenSequence(last.llama_result, key) =>
             /\ PyEq(last.result.v[key], DictGet(last.llama_result, key))
             /\ Len(last.result.v[key].v) = Len(DictGet(last.llama_result, key).v)
        /\ NoGenSequence(last.llama_result, key) =>
             PyEq(last.result.v[key], last.deterministic_result.v[key])

C16_Witness ==
    /\ MergeReturned(last)
    /\ GenSequence(last.llama_result, "education")
    /\ NoGenSequence(last.llama_result, "experience")
    /\ HasKey(last.llama_result, "experience")
    /\ Len(last.result.v["education"].v) = 1
    /\ PyEq(DictGet(last.result.v["education"].v[1], "degree"), PyStr("BSc"))
    /\ PyEq(last.result.v["experience"], PyList(<<>>))
    /\ PyEq(last.deterministic_result.v["education"], PyList(<<>>))

\* C17: after the merge, addresses.current and addresses.permanent are
\* decided each on its own: a field takes the generative value when that
\* value is non-empty and keeps the deterministic value otherwise, so a
\* generative result with one of the two set changes that one only.
C17_AddressesFieldByField ==
    MergeReturned(last) =>
      \A key \in {"current", "permanent"} :
        IF Truthy(DictGet(GenGroup(last.llama_result, "addresses"), key))
        THEN PyEq(Field(last.result, "addresses", key),
                  DictGet(GenGroup(last.llama_result, "addresses"), key))
        ELSE /\ HasKey(last.result.v["addresses"], key)
                  = HasKey(last.deterministic_result.v["addresses"], key)
             /\ PyEq(Field(last.result, "addresses", key),
                     Field(last.deterministic_result, "addresses", key))

C17_Witness ==
    /\ MergeReturned(last)
    /\ PyEq(DictGet(GenGroup(last.llama_result, "addresses"), "current"), PyStr("12 Hill St"))
    /\ PyEq(DictGet(GenGroup(last.llama_result, "addresses"), "permanent"), PyStr(""))
    /\ PyEq(Field(last.deterministic_result, "addresses", "current"),
            PyStr("Address: 12 MG Road City: Pune"))
    /\ PyEq(Field(last.deterministic_result, "addresses", "permanent"),
            PyStr("Address: 12 MG Road City: Pune"))
    /\ PyEq(Field(last.result, "addresses", "current"), PyStr("12 Hill St"))
    /\ PyEq(Field(last.result, "addresses", "permanent"),
            PyStr("Address: 12 MG Road City: Pune"))

\* C18: the merge works on a deep copy: once parse has merged the generative
\* result and assigned candidate_id, the record deterministic_extract
\* returned (its identity, documents and addresses groups and its sequences)
\* is what deterministic_extract produced.
C18_DeterministicResultUnchanged ==
    MergeReturned(last) =>
      /\ PyEq(last.deterministic_after, last.deterministic_result)
      /\ PyEq(last.deterministic_result, DeterministicResult(last.text))

\* the lines of the text that hold an address keyword, stripped, in document
\* order
RECURSIVE Qualifying(_, _)
Qualifying(lines, i) ==
    IF i > Len(lines) THEN <<>>
    ELSE IF \E k \in {"address", "residence", "location", "city", "state", "pincode"} :
              Contains(StrLower(lines[i]), k)
    THEN <<StrStrip(lines[i])>> \o Qualifying(lines, i + 1)
    ELSE Qualifying(lines, i + 1)

\* the elements of q from index a to index b (0-based, both kept) joined with
\* spaces
RECURSIVE JoinedWithSpaces(_, _, _)
JoinedWithSpaces(q, a, b) ==
    IF a > b \/ a >= Len(q) THEN ""
    ELSE IF a = b \/ a = Len(q) - 1 THEN q[a + 1]
    ELSE q[a + 1] \o " " \o JoinedWithSpaces(q, a + 1, b)

AddressSlices(text, addresses) ==
    IF Len(Qualifying(SplitLines(text), 1)) = 0
    THEN ~HasKey(addresses, "current") /\ ~HasKey(addresses, "permanent")
    ELSE /\ PyEq(DictGet(addresses, "current"),
                 PyStr(JoinedWithSpaces(Qualifying(SplitLines(text), 1), 0, 2)))
         /\ PyEq(DictGet(addresses, "permanent"),
                 IF Len(Qualifying(SplitLines(text), 1)) >= 4
                 THEN PyStr(JoinedWithSpaces(Qualifying(SplitLines(text), 1), 3, 5))
                 ELSE DictGet(addresses, "current"))

\* C19: in the record of deterministic_extract, with the lines that hold an
\* address keyword taken in document order, current is the first up to 3
\* joined with spaces; permanent is those at indices 3..5 joined with spaces
\* when there are at least 4, and equals current when there are 1 to 3; with
\* none, neither field is set.
C19_AddressSlicing ==
    extraction.called => AddressSlices(extraction.text, extraction.result.v["addresses"])

C19_Witness ==
    /\ extraction.called
    /\ extraction.text = FiveLines
    /\ Qualifying(SplitLines(extraction.text), 1)
         = <<"Address: L0", "CITY L1", "State L2", "Location L3", "Pincode L4">>
    /\ PyEq(Field(extraction.result, "addresses", "current"),
            PyStr("Address: L0 CITY L1 State L2"))
    /\ PyEq(Field(extraction.result, "addresses", "permanent"),
            PyStr("Location L3 Pincode L4"))

\* seven qualifying lines: the seventh is in neither field
C19_WitnessSeven ==
    /\ extraction.called
    /\ extraction.text = SevenLines
    /\ PyEq(Field(extraction.result, "addresses", "current"), PyStr("address a city b state c"))
    /\ PyEq(Field(extraction.result, "addresses", "permanent"),
            PyStr("location d residence e pincode f"))

\* s holds ten digits in a row, the first of them 6 to 9
HasMobileDigits(s) ==
    \E i \in 1..(Len(s) - 9) :
      /\ Char(s, i) \in {"6", "7", "8", "9"}
      /\ \A j \in 1..9 : Char(s, i + j) \in {"0", "1", "2", "3", "4", "5", "6", "7", "8", "9"}

\* C20: when the text holds a 10-digit mobile number (first digit 6 to 9),
\* with or without +91 or a leading zero before it, deterministic_extract
\* sets identity.phone to the first such number as matched, hyphens and
\* spaces removed, so that the stored value holds the 10 digits.
C20_PhoneHoldsDigits ==
    (extraction.called /\ ReSearch(phone_pattern, extraction.text, NoFlags).ok) =>
      /\ HasKey(extraction.result.v["identity"], "phone")
      /\ IsStr(Field(extraction.result, "identity", "phone"))
      /\ HasMobileDigits(Field(extraction.result, "identity", "phone").v)
      /\ Field(extraction.result, "identity", "phone").v
           = StrRemove(StrRemove(Group0(extraction.text,
                                        ReSearch(phone_pattern, extraction.text, NoFlags)),
                                 "-"), " ")

\* the text the i-th dob pattern matches first, searched as the code searches
DobMatch(text, i) == ReSearch(dob_patterns[i], text, IgnoreCase)

\* C21: the dob patterns are tried in the order day/month/year, year-first,
\* month-name; the first of them that matches anywhere in the text gives the
\* value, its earliest match, even when a later pattern matches earlier in
\* the text; when none matches dob is not set.
C21_DobPrecedence ==
    extraction.called =>
      IF DobMatch(extraction.text, 1).ok
      THEN PyEq(Field(extraction.result, "identity", "dob"),
                PyStr(Group0(extraction.text, DobMatch(extraction.text, 1))))
      ELSE IF DobMatch(extraction.text, 2).ok
      THEN PyEq(Field(extraction.result, "identity", "dob"),
                PyStr(Group0(extraction.text, DobMatch(extraction.text, 2))))
      ELSE IF DobMatch(extraction.text, 3).ok
      THEN PyEq(Field(extraction.result, "identity", "dob"),
                PyStr(Group0(extraction.text, DobMatch(extraction.text, 3))))
      ELSE ~HasKey(extraction.result.v["identity"], "dob")

\* a year-first date stands before the day-first one: the day-first one wins
C21_Witness ==
    /\ extraction.called
    /\ extraction.text = "Joined 2020-01-15, born 12/05/1990"
    /\ DobMatch(extraction.text, 2).ok
    /\ DobMatch(extraction.text, 2).start < DobMatch(extraction.text, 1).start
    /\ PyEq(Field(extraction.result, "identity", "dob"), PyStr("12/05/1990"))

\* the month-name pattern is reached when the other two match nowhere, and
\* loses to the year-first one that stands after it
C21_WitnessMonthName ==
    /\ extraction.called
    /\ \/ /\ extraction.text = "Born on March 5, 1990"
          /\ PyEq(Field(extraction.result, "identity", "dob"), PyStr("March 5, 1990"))
       \/ /\ extraction.text = "Jan 2 2001 then 1999/12/31"
          /\ PyEq(Field(extraction.result, "identity", "dob"), PyStr("1999/12/31"))

\* the labeled name pattern, searched as the code searches it
LabeledName(text) == ReSearch(name_patterns[1], text, IgnoreCaseMultiline)

\* C22: the name is the labeled pattern's whenever that pattern matches
\* anywhere in the text; only when it matches nowhere does the name come
\* from the fallback, and then from a line that begins with a capital
\* letter: a line that begins with a lower-case word is never the name.
C22_NamePrecedence ==
    (extraction.called /\ HasKey(extraction.result.v["identity"], "name")) =>
      IF LabeledName(extraction.text).ok
      THEN PyEq(Field(extraction.result, "identity", "name"),
                PyStr(StrStrip(Group1(extraction.text, LabeledName(extraction.text)))))
      ELSE /\ Len(Field(extraction.result, "identity", "name").v) >= 3
           /\ Char(Field(extraction.result, "identity", "name").v, 1) \in UpperSet

\* the positions of the first '{' of s and of the last '}' after it; the
\* span exists when there is such a pair
OpenBraces(s) == {i \in 1..Len(s) : Char(s, i) = "{"}
CloseBraces(s) == {i \in 1..Len(s) : Char(s, i) = "}" /\ OpenBraces(s) # {} /\ i > SetMin(OpenBraces(s))}
BraceSpan(s) == SubSeq(s, SetMin(OpenBraces(s)), SetMax(CloseBraces(s)))

\* the value of a JSON text, the empty structure when it is not JSON
LoadedOrEmpty(s) == IF JsonLoads(s).ok THEN JsonLoads(s).value ELSE EmptyDict

\* a parse whose model answered with a text and that went on to the merge
ModelAnswered(call) ==
    /\ parser.llm # "none"
    /\ call.reached = "merge"
    /\ call.env.llm.kind = "text"

\* C23: when the response holds a brace-delimited span, from the first '{'
\* to the last '}', llama_extract parses that span alone and its value is the
\* result, the empty structure when the span is not JSON, the full response
\* not being tried; only when there is no span is the full response parsed.
C23_ResponseParsingOrder ==
    ModelAnswered(last) =>
      IF CloseBraces(StrStrip(last.env.llm.text)) # {}
      THEN PyEq(last.llama_result, LoadedOrEmpty(BraceSpan(StrStrip(last.env.llm.text))))
      ELSE PyEq(last.llama_result, LoadedOrEmpty(StrStrip(last.env.llm.text)))

\* the full response is a JSON array, the span in it is not JSON: the result
\* is the empty structure
C23_Witness ==
    /\ ModelAnswered(last)
    /\ last.env.llm.text = " [{\"a\": 1}, {\"b\": 2}]\n"
    /\ JsonLoads(StrStrip(last.env.llm.text)).ok
    /\ BraceSpan(StrStrip(last.env.llm.text)) = "{\"a\": 1}, {\"b\": 2}"
    /\ ~JsonLoads(BraceSpan(StrStrip(last.env.llm.text))).ok
    /\ PyEq(last.llama_result, EmptyDict)

\* no span: the full response is parsed; a span inside an array: the span is
C23_WitnessFull ==
    /\ ModelAnswered(last)
    /\ \/ last.env.llm.text = "123" /\ PyEq(last.llama_result, PyNum(123))
       \/ /\ last.env.llm.text = "[{\"identity\": {\"email\": \"b@y.com\"}}]"
          /\ IsDict(last.llama_result)
          /\ PyEq(Field(last.llama_result, "identity", "email"), PyStr("b@y.com"))

\* the parse of the handled file gave a non-empty identity and one upload at
\* least returned True
UploadSucceeded ==
    /\ handled.called
    /\ handled.identity
    /\ handled.sheets = "true" \/ handled.portal = "true"

\* the call left the hashes in memory and the persisted file as they were
HashesUntouched ==
    /\ handler.processed_hashes = handled.before
    /\ hashes_file = handled.stored

C24_WitnessFailed ==
    /\ handled.called /\ handled.identity
    /\ handled.sheets = "false" /\ handled.portal = "raises"
    /\ handled.outcome = "failed"
    /\ handled.before # {}
    /\ HashesUntouched

\* the handled call reached the uploads: the file is supported, no duplicate,
\* and its parse gave a non-empty identity
ReachedUploads == handled.called /\ handled.identity

\* C27: in _process_file the Sheets upload is attempted before the portal
\* upload; with a portal uploader configured the portal upload is attempted
\* whatever the Sheets upload gave (True, False or an exception); an
\* exception of an upload neither prevents the other upload nor leaves
\* _process_file.
C27_UploadOrdering ==
    ReachedUploads =>
      /\ handled.attempts = IF handler.portal_uploader
                            THEN <<"sheets", "portal">> ELSE <<"sheets">>
      /\ handled.sheets \in UploadOutcomes
      /\ handler.portal_uploader => handled.portal \in UploadOutcomes
      /\ handled.outcome \in {"processed", "failed"}
      /\ handled.outcome = "processed" <=>
           (handled.sheets = "true" \/ handled.portal = "true")

\* the Sheets upload raised and the portal upload was still attempted, and
\* succeeded
C27_Witness ==
    /\ ReachedUploads
    /\ handler.portal_uploader
    /\ handled.sheets = "raises"
    /\ handled.attempts = <<"sheets", "portal">>
    /\ handled.portal = "true"
    /\ handled.outcome = "processed"

\* both uploads raised: the call ends as a failed one, not in the handler of
\* the outer try block
C27_WitnessBothRaise ==
    /\ ReachedUploads
    /\ handled.sheets = "raises" /\ handled.portal = "raises"
    /\ handled.attempts = <<"sheets", "portal">>
    /\ handled.outcome = "failed"

\* the digest the candidate_id block would set on the returned record
WouldBeDigest(call) ==
    LET email == Field(call.result, "identity", "email")
    IN  PyStr(Digest8(IF Truthy(email) /\ IsStr(email) THEN email.v ELSE call.file_path))

\* C29: when the identity of the generative result holds a non-empty
\* candidate_id, the record parse returns holds that value as
\* identity.candidate_id and not a digest of the email or the path; the digest
\* is set only when the candidate_id is empty after the merge.
C29_GenerativeIdKept ==
    MergeReturned(last) =>
      IF GenGivesCandidateId(last.llama_result)
      THEN /\ PyEq(Field(last.result, "identity", "candidate_id"),
                   DictGet(GenGroup(last.llama_result, "identity"), "candidate_id"))
           /\ ~PyEq(Field(last.result, "identity", "candidate_id"), WouldBeDigest(last))
      ELSE PyEq(Field(last.result, "identity", "candidate_id"), WouldBeDigest(last))

\* the generative identity gives "C-77" on a text with an email: the id is
\* "C-77", not the digest of the email
C29_Witness ==
    /\ MergeReturned(last)
    /\ GenGivesCandidateId(last.llama_result)
    /\ PyEq(Field(last.result, "identity", "email"), PyStr("a@x.com"))
    /\ PyEq(Field(last.result, "identity", "candidate_id"), PyStr("C-77"))
    /\ PyEq(WouldBeDigest(last), PyStr("74317378"))

\* the first POSTs of the upload under way, in the order they were made
IsFirstPost(event) == event.op = "post"
FirstPosts == SelectSeq(uploader.trace, IsFirstPost)

\* no request of the upload under way was accepted
NoneAccepted == \A k \in 1..Len(uploader.trace) : uploader.trace[k].gave # "accepted"

\* C28: upload_candidate returns True, without starting the browser, as soon
\* as an API endpoint accepts the record (status 200 or 201) on the first POST
\* or on the one retry that follows a 401 and a successful authentication; the
\* browser is started only after all six endpoints have been tried in their
\* fixed order and none accepted, and its result is then the return value.
C28_PortalFallback ==
    /\ \A k \in 1..Len(FirstPosts) : FirstPosts[k].endpoint = endpoints[k]
    /\ \A k \in 1..Len(uploader.trace) :
         LET event == uploader.trace[k]
         IN  /\ event.gave = "accepted" =>
                  /\ k = Len(uploader.trace)
                  /\ event.op \in {"post", "retry"}
                  /\ uploader.pc = "done" /\ uploader.result = "true"
             /\ event.op = "retry" =>
                  /\ k >= 3
                  /\ uploader.trace[k - 1] =
                       [op |-> "auth", endpoint |-> event.endpoint, gave |-> "ok"]
                  /\ uploader.trace[k - 2] =
                       [op |-> "post", endpoint |-> event.endpoint, gave |-> "unauthorized"]
             /\ event.op = "browser" =>
                  /\ k = Len(uploader.trace)
                  /\ Len(FirstPosts) = Len(endpoints)
                  /\ NoneAccepted
                  /\ uploader.pc = "done" /\ uploader.result = event.gave
    /\ uploader.pc = "done" =>
         /\ uploader.trace # << >>
         /\ uploader.trace[Len(uploader.trace)].gave = "accepted"
              \/ uploader.trace[Len(uploader.trace)].op = "browser"
    /\ uploader.pc # "done" => uploader.result = "none" /\ NoneAccepted

\* the third endpoint answers 401, the authentication succeeds and the retry
\* is accepted: True is returned and no browser was started
C28_Witness ==
    /\ uploader.pc = "done" /\ uploader.result = "true"
    /\ Len(uploader.trace) = 5
    /\ uploader.trace[5] = [op |-> "retry", endpoint |-> "/api/candidates", gave |-> "accepted"]
    /\ uploader.trace[4].op = "auth"
    /\ \A k \in 1..5 : uploader.trace[k].op # "browser"

\* no endpoint accepts, the retries included: the browser runs and its
\* failure is the return value
C28_WitnessBrowser ==
    /\ uploader.pc = "done" /\ uploader.result = "false"
    /\ Len(FirstPosts) = 6
    /\ \E k \in 1..Len(uploader.trace) : uploader.trace[k].op = "retry"
    /\ uploader.trace[Len(uploader.trace)].op = "browser"

\* a watcher has been started
Polling == watcher.pc # "none"

\* no thread is inside a poll or inside _mark_as_processed
BothIdle ==
    /\ Polling
    /\ watcher.pc \in {"test", "sleep", "sleep60", "exited"}
    /\ watcher.observer = "idle"

\* C25: in every interleaving of the Drive polling thread and the observer
\* thread, once both are idle the processed-hashes file holds every hash and
\* every Drive file id of the sets in memory: no save overwrites the file with
\* a snapshot that lacks an entry the other thread added.
C25_PersistedWhenIdle ==
    BothIdle =>
      /\ handler.processed_hashes \subseteq hashes_file
      /\ watcher.processed_drive_ids \subseteq watcher.file_ids

\* the ids whose download has returned a path
Downloaded == {f \in DriveFiles : watcher.downloads[f] >= 1}

\* C26: a Drive file id is in processed_drive_ids exactly when a download of
\* it has returned a path; no file is downloaded successfully twice; an entry
\* of a listing is skipped exactly when its id is in the set by then, also
\* when it was added earlier in the same poll, so a file whose download failed
\* is tried again by the poll that lists it next; the id stays marked when the
\* observer fails on the downloaded file.
C26_DownloadedAtMostOnce ==
    Polling =>
      /\ watcher.processed_drive_ids = Downloaded
      /\ \A f \in DriveFiles : watcher.downloads[f] <= 1
      /\ \A k \in 1..Len(watcher.log) :
           /\ watcher.log[k].did = "skipped" <=> watcher.log[k].before >= 1
           /\ watcher.log[k].did \in {"skipped", "downloaded", "failed"}
           /\ watcher.log[k].did = "downloaded" => watcher.log[k].id \in Downloaded
      /\ \A f \in watcher.failures : f \notin Downloaded => f \notin watcher.processed_drive_ids
      /\ watcher.failed \subseteq watcher.processed_drive_ids

\* one listing holds d1 twice: the first entry is downloaded, the second is
\* skipped in the same poll
C26_Witness ==
    /\ Polling
    /\ Len(watcher.log) = 2
    /\ watcher.log[1] = [id |-> "d1", before |-> 0, did |-> "downloaded"]
    /\ watcher.log[2] = [id |-> "d1", before |-> 1, did |-> "skipped"]

\* a download of d2 failed in one poll and succeeded in a later one, and the
\* observer then failed on the file: the id is marked
C26_WitnessRetried ==
    /\ Polling
    /\ "d2" \in watcher.failures
    /\ watcher.downloads["d2"] = 1
    /\ "d2" \in watcher.failed
    /\ "d2" \in watcher.processed_drive_ids

\* stop() has set the flag to false
Stopped == Polling /\ watcher.stopped

\* the polling thread has left _drive_poll_loop
Exited == watcher.pc = "exited"

\* C30: after stop() has set drive_polling_active to false the polling loop
\* begins no new poll: when it next evaluates its condition it leaves the
\* loop, and with the list and download calls under way returning the thread
\* exits in the end, also when a poll has ended in an exception.
C30_PollingStops ==
    /\ [][Stopped => ~(watcher.pc = "test" /\ watcher'.pc = "list")]_vars
    /\ [][(Stopped /\ watcher.pc = "test" /\ watcher'.pc # "test")
            => watcher'.pc = "exited"]_vars
    /\ [][Exited => watcher'.pc = "exited"]_vars
    /\ Stopped ~> Exited

\* the thread has exited after stop(), with a file downloaded before
C30_Witness ==
    /\ Stopped
    /\ Exited
    /\ watcher.processed_drive_ids # {}

\* stop() found the thread asleep after an exception
C30_WitnessException ==
    /\ Stopped
    /\ watcher.pc = "sleep60"

=========================================================================
